---------------------------- MODULE Spec2Model ----------------------------
(***************************************************************************)
(* Model of the recipe-import core of feast (src-tauri): the HTTP fetcher  *)
(* (http/mod.rs), the JSON-LD locator (parser/jsonld.rs) and the recipe    *)
(* mapper (parser/mod.rs, parser/duration.rs).                             *)
(*                                                                         *)
(* Text is modelled as a sequence of one-character strings, so that        *)
(* to_lowercase, contains, starts_with, trim and digit scanning are        *)
(* computed character by character as the Rust code computes them.         *)
(***************************************************************************)
EXTENDS Integers, Sequences, FiniteSets, TLC

VARIABLES
    pc,        \* position of the running call
    url,       \* fetch_url: the url argument
    response,  \* fetch_url: what the server answers (chosen when the request is sent)
    body,      \* fetch_url: the text read from the response
    net,       \* fetch_url: network effects so far
    html,      \* parse_recipe_from_html: the document
    blocks,    \* parse_recipe_from_html: jsonld_blocks
    json,      \* parse_recipe_json: the Recipe object
    overflow_checks,  \* whether the build panics on integer overflow
    arg,       \* the argument of a utility function called on its own
    calls,     \* import_recipe_from_url: the state of each running call
    db,        \* the recipes table of the database
    result     \* the call's return value, NoResult while it runs

vars == <<pc, url, response, body, net, html, blocks, json, overflow_checks, arg, calls, db,
         result>>
fetch_vars == <<url, response, body, net>>
parse_vars == <<html, blocks, json, overflow_checks>>

(***************************************************************************)
(* Option and (absent) values                                              *)
(***************************************************************************)
None == [some |-> FALSE]
Some(v) == [some |-> TRUE, v |-> v]
NoResult == [tag |-> "running"]

(***************************************************************************)
(* Characters and text                                                     *)
(***************************************************************************)
LowerLetters == {"a","b","c","d","e","f","g","h","i","j","k","l","m",
                 "n","o","p","q","r","s","t","u","v","w","x","y","z"}
UpperLetters == {"A","B","C","D","E","F","G","H","I","J","K","L","M",
                 "N","O","P","Q","R","S","T","U","V","W","X","Y","Z"}

\* char::is_ascii_digit
is_ascii_digit(c) == c \in {"0","1","2","3","4","5","6","7","8","9"}

\* char::is_whitespace, on the characters the model uses (U+00A0 is the
\* no-break space, which has the White_Space property)
is_whitespace(c) == c \in {" ", "\t", "\n", "\r", "U+00A0"}

\* char::to_lowercase of one character: ASCII letters, and the Kelvin sign
\* U+212A, whose lower case is the ASCII letter k; every other character the
\* model uses is caseless
LowerChar(c) ==
    IF c \in UpperLetters
    THEN <<"a","b","c","d","e","f","g","h","i","j","k","l","m","n","o","p","q","r","s","t","u","v","w","x","y","z">>[CHOOSE i \in 1..26 : <<"A","B","C","D","E","F","G","H","I","J","K","L","M","N","O","P","Q","R","S","T","U","V","W","X","Y","Z">>[i] = c]
    ELSE IF c = "U+212A" THEN "k"
    ELSE c

\* char::len_utf8: characters outside ASCII are written U+xxxx
len_utf8(c) ==
    IF c \in {"U+00A0", "U+00E9"} THEN 2
    ELSE IF c = "U+212A" THEN 3
    ELSE 1

\* the length in bytes of the first k characters of s
RECURSIVE PrefixBytes(_, _)
PrefixBytes(s, k) == IF k = 0 THEN 0 ELSE PrefixBytes(s, k - 1) + len_utf8(s[k])

\* str::to_lowercase
to_lowercase(s) == [i \in 1..Len(s) |-> LowerChar(s[i])]

\* str::starts_with
starts_with(s, p) == Len(p) <= Len(s) /\ SubSeq(s, 1, Len(p)) = p

\* str::contains
contains(s, p) ==
    \E i \in 0..(Len(s) - Len(p)) : SubSeq(s, i + 1, i + Len(p)) = p

\* index (1-based) of the first occurrence of character c in s, 0 if none
find_char(s, c) ==
    IF \E i \in 1..Len(s) : s[i] = c
    THEN CHOOSE i \in 1..Len(s) : s[i] = c /\ \A j \in 1..(i - 1) : s[j] # c
    ELSE 0

\* the text after position n
Drop(s, n) == SubSeq(s, n + 1, Len(s))
Take(s, n) == SubSeq(s, 1, n)

RECURSIVE trim_start(_)
trim_start(s) ==
    IF s # <<>> /\ is_whitespace(Head(s)) THEN trim_start(Tail(s)) ELSE s

RECURSIVE trim_end(_)
trim_end(s) ==
    IF s # <<>> /\ is_whitespace(s[Len(s)])
    THEN trim_end(SubSeq(s, 1, Len(s) - 1))
    ELSE s

\* str::trim
trim(s) == trim_end(trim_start(s))

(***************************************************************************)
(* HttpFetcher: http/mod.rs                                                *)
(***************************************************************************)
\* http/mod.rs:15
MAX_RESPONSE_SIZE == 10 * 1024 * 1024
\* http/mod.rs:9 (seconds)
REQUEST_TIMEOUT == 30
\* http/mod.rs:12
MAX_REDIRECTS == 5

Ok(v) == [tag |-> "Ok", v |-> v]
Err(kind) == [tag |-> "Err", kind |-> kind]
\* FetchError::Timeout(secs), TooManyRedirects(max), ResponseTooLarge(limit)
ErrLimit(kind, limit) == [tag |-> "Err", kind |-> kind, limit |-> limit]
\* FetchError::InvalidContentType(received)
ErrReceived(kind, received) == [tag |-> "Err", kind |-> kind, received |-> received]
\* the error kind of a result, "" for Ok and for a call still running
ErrKind(r) == IF r.tag = "Err" THEN r.kind ELSE ""

SpecialSchemes == {<<"h","t","t","p">>, <<"h","t","t","p","s">>, <<"w","s">>, <<"w","s","s">>, <<"f","t","p">>, <<"f","i","l","e">>}

\* the characters a URL scheme may hold after its first letter
IsSchemeChar(c) ==
    c \in LowerLetters \cup UpperLetters \/ is_ascii_digit(c) \/ c \in {"+", "-", "."}

\* text up to (not including) the first character of the set stop
RECURSIVE take_until(_, _)
take_until(s, stop) ==
    IF s = <<>> \/ Head(s) \in stop THEN <<>>
    ELSE <<Head(s)>> \o take_until(Tail(s), stop)

RECURSIVE skip_while(_, _)
skip_while(s, set) ==
    IF s # <<>> /\ Head(s) \in set THEN skip_while(Tail(s), set) ELSE s

RECURSIVE strip_end(_, _)
strip_end(s, set) ==
    IF s # <<>> /\ s[Len(s)] \in set THEN strip_end(SubSeq(s, 1, Len(s) - 1), set) ELSE s

\* reqwest::Url::parse(url) without a base URL, on text over letters, digits,
\* space and the punctuation : / \ ? # . + - ( ): the input is stripped of
\* leading and trailing spaces; a scheme is a letter followed by scheme
\* characters up to the first ':' and is lower-cased; http, https, ws, wss and
\* ftp need a non-empty host free of spaces after any run of slashes; an
\* authority ("//host") of any other scheme must be free of spaces; anything
\* else after the scheme is an opaque path.
UrlParse(input) ==
    LET stripped == {" ", "\t", "\n", "\r"}
        s      == strip_end(skip_while(input, stripped), stripped)
        colon  == find_char(s, ":")
        raw    == Take(s, colon - 1)
        scheme == to_lowercase(raw)
        rest   == Drop(s, colon)
        stop   == {"/", "\\", "?", "#"}
        host   == IF scheme \in SpecialSchemes \ {<<"f","i","l","e">>}
                  THEN take_until(skip_while(rest, {"/", "\\"}), stop)
                  ELSE take_until(Drop(rest, 2), stop)
        bad    == [ok |-> FALSE]
        good   == [ok |-> TRUE, scheme |-> scheme, href |-> s]
    IN  IF colon <= 1 THEN bad
        ELSE IF ~(raw[1] \in LowerLetters \cup UpperLetters) THEN bad
        ELSE IF \E i \in 1..Len(raw) : ~IsSchemeChar(raw[i]) THEN bad
        ELSE IF scheme \in SpecialSchemes \ {<<"f","i","l","e">>}
             THEN IF host = <<>> \/ contains(host, <<" ">>) THEN bad ELSE good
        ELSE IF starts_with(rest, <<"/","/">>)
             THEN IF contains(host, <<" ">>) THEN bad ELSE good
        ELSE good

\* mutant of validate_url: the scheme match is dropped
validate_url_AnyScheme(u) ==
    LET parsed == UrlParse(u)
    IN  IF ~parsed.ok THEN Err("InvalidUrl") ELSE Ok(parsed)

\* validate_url: Ok(parsed) | Err(InvalidUrl) | Err(InvalidUrlScheme)
validate_url(u) ==
    LET parsed == UrlParse(u)
    IN  IF ~parsed.ok THEN Err("InvalidUrl")
        ELSE IF parsed.scheme = <<"h","t","t","p">> \/ parsed.scheme = <<"h","t","t","p","s">> THEN Ok(parsed)
        ELSE Err("InvalidUrlScheme")

\* is_html_content_type
is_html_content_type(content_type) ==
    LET lower == to_lowercase(content_type)
    IN  contains(lower, <<"t","e","x","t","/","h","t","m","l">>) \/ contains(lower, <<"a","p","p","l","i","c","a","t","i","o","n","/","x","h","t","m","l","+","x","m","l">>)

\* reqwest::StatusCode::is_success
is_success(status) == 200 <= status /\ status < 300

\* map_reqwest_error, on the kind of transport failure
map_reqwest_error(err) ==
    IF err = "timeout" THEN ErrLimit("Timeout", REQUEST_TIMEOUT)
    ELSE IF err = "redirect" THEN ErrLimit("TooManyRedirects", MAX_REDIRECTS)
    ELSE Err("ConnectionFailed")

\* HeaderValue::to_str: the text of a header value whose bytes are all
\* visible ASCII or tabs, and an error otherwise; fetch_url takes "" for the
\* error. A character outside ASCII is written by its code point ("U+00E9").
to_str(header) ==
    IF \A i \in 1..Len(header) : Len(header[i]) = 1 /\ header[i] # "\n"
    THEN Some(header)
    ELSE None
unwrap_or(opt, default) == IF opt.some THEN opt.v ELSE default

\* http::StatusCode::canonical_reason for the statuses the model answers with
canonical_reason(status) ==
    IF status = 300 THEN Some("Multiple Choices")
    ELSE IF status = 304 THEN Some("Not Modified")
    ELSE IF status = 418 THEN Some("I'm a teapot")
    ELSE None

\* status_to_message
status_to_message(status) ==
    IF status = 400 THEN "Bad request"
    ELSE IF status = 401 THEN "Authentication required"
    ELSE IF status = 403 THEN "Access forbidden"
    ELSE IF status = 404 THEN "Page not found"
    ELSE IF status = 429 THEN "Too many requests - please try again later"
    ELSE IF status = 500 THEN "Server error"
    ELSE IF status = 502 THEN "Bad gateway"
    ELSE IF status = 503 THEN "Service unavailable"
    ELSE IF status = 504 THEN "Gateway timeout"
    ELSE unwrap_or(canonical_reason(status), "Unknown error")

\* ---- inputs of fetch_url ------------------------------------------------
Urls ==
    LET UrlSchemes == { <<"h","t","t","p">>, <<"h","t","t","p","s">>, <<"H","T","T","P">>, <<"H","t","t","p","s">>, <<"f","t","p">>, <<"f","i","l","e">>,
                    <<"j","a","v","a","s","c","r","i","p","t">>, <<"h","t","t","p","x">>, <<"1","h","t","t","p">>, <<"h","t"," ","t","p">>, <<>> }
        UrlSeparators == { <<":","/","/">>, <<":">>, <<>> }
        UrlRests == { <<"a",".","b","/","r">>, <<"/","p">>, <<"a"," ","b","/","r">>, <<"a","l","e","r","t","(","1",")">>, <<>> }
    IN  { s \o sep \o r : s \in UrlSchemes, sep \in UrlSeparators, r \in UrlRests }
          \cup { <<"n","o","t"," ","a"," ","u","r","l">>, <<" ","h","t","t","p","s",":","/","/","a",".","b","/","r"," ">> }

Statuses == {200, 299, 300, 404, 418, 500, 599}
ContentTypes ==
    { <<"t","e","x","t","/","h","t","m","l">>, <<"T","E","X","T","/","H","T","M","L">>, <<"T","e","x","t","/","H","t","m","l",";"," ","c","h","a","r","s","e","t","=","u","t","f","-","8">>,
      <<"a","p","p","l","i","c","a","t","i","o","n","/","x","h","t","m","l","+","x","m","l">>, <<"a","p","p","l","i","c","a","t","i","o","n","/","x","h","t","m","l","+","x","m","l",";","c","h","a","r","s","e","t","=","U","T","F","-","8">>,
      <<"a","p","p","l","i","c","a","t","i","o","n","/","j","s","o","n">>, <<"t","e","x","t","/","p","l","a","i","n">>, <<"i","m","a","g","e","/","p","n","g">>, <<>>,
      <<"t","e","x","t","/","h","t","m","l","5">>, <<"a","p","p","l","i","c","a","t","i","o","n","/","j","s","o","n",";"," ","p","r","o","f","i","l","e","=","t","e","x","t","/","h","t","m","l">>,
      <<"t","e","x","t","/","h","t","m","l",";"," ","c","h","a","r","s","e","t","=","u","t","f","-","8">> \o <<"U+00E9">> }
ResponseHeads ==
    [status : Statuses,
     content_type : {None} \cup { Some(c) : c \in ContentTypes },
     content_length :
        {None} \cup { Some(n) : n \in {0, MAX_RESPONSE_SIZE, MAX_RESPONSE_SIZE + 1} }]
\* the text response.text() yields: its length in bytes and which page it is
Bodies == [len : {0, 1, MAX_RESPONSE_SIZE, MAX_RESPONSE_SIZE + 1}, page : {"p1", "p2"}]
NoResponse == [status |-> 0, content_type |-> None, content_length |-> None]
NoBody == [len |-> 0, page |-> "none"]
TransportErrors == {"timeout", "redirect", "connect"}

\* ---- fetch_url, one action per stage -------------------------------------
\* line 126: let parsed_url = validate_url(url)?
FetchValidate ==
    /\ pc = "validate_url"
    /\ LET v == validate_url(url)
       IN  IF v.tag = "Err"
           THEN pc' = "done" /\ result' = v
           ELSE pc' = "build_client" /\ result' = result
    /\ UNCHANGED <<url, response, body, net, parse_vars, arg, calls, db>>

\* lines 129-134: Client::builder()...build()
FetchBuildClient ==
    /\ pc = "build_client"
    /\ \E built \in BOOLEAN :
          IF built
          THEN /\ net' = [net EXCEPT !.client_built = TRUE]
               /\ pc' = "send"
               /\ result' = result
          ELSE /\ net' = net
               /\ pc' = "done"
               /\ result' = Err("ConnectionFailed")
    /\ UNCHANGED <<url, response, body, parse_vars, arg, calls, db>>

\* lines 137-141: client.get(parsed_url).send().await
FetchSend ==
    /\ pc = "send"
    /\ net' = [net EXCEPT !.requests_sent = @ + 1]
    /\ \E outcome \in TransportErrors \cup {"response"}, head \in ResponseHeads :
          IF outcome \in TransportErrors
          THEN /\ pc' = "done"
               /\ result' = map_reqwest_error(outcome)
               /\ response' = response
          ELSE /\ pc' = "check_status"
               /\ response' = head
               /\ result' = result
    /\ UNCHANGED <<url, body, parse_vars, arg, calls, db>>

\* lines 144-150
FetchCheckStatus ==
    /\ pc = "check_status"
    /\ IF ~is_success(response.status)
       THEN /\ pc' = "done"
            /\ result' = [tag |-> "Err", kind |-> "HttpError",
                          status |-> response.status,
                          message |-> status_to_message(response.status)]
       ELSE pc' = "check_content_type" /\ result' = result
    /\ UNCHANGED <<url, response, body, net, parse_vars, arg, calls, db>>

\* lines 153-158
FetchCheckContentType ==
    /\ pc = "check_content_type"
    /\ IF response.content_type.some
       THEN LET content_type_str == unwrap_or(to_str(response.content_type.v), <<>>)
            IN  IF ~is_html_content_type(content_type_str)
                THEN /\ pc' = "done"
                     /\ result' = ErrReceived("InvalidContentType", content_type_str)
                ELSE pc' = "check_content_length" /\ result' = result
       ELSE pc' = "check_content_length" /\ result' = result
    /\ UNCHANGED <<url, response, body, net, parse_vars, arg, calls, db>>

\* lines 161-165
FetchCheckContentLength ==
    /\ pc = "check_content_length"
    /\ IF response.content_length.some /\ response.content_length.v > MAX_RESPONSE_SIZE
       THEN /\ pc' = "done"
            /\ result' = ErrLimit("ResponseTooLarge", MAX_RESPONSE_SIZE)
       ELSE pc' = "read_body" /\ result' = result
    /\ UNCHANGED <<url, response, body, net, parse_vars, arg, calls, db>>

\* lines 168-171: response.text().await
FetchReadBody ==
    /\ pc = "read_body"
    /\ net' = [net EXCEPT !.body_read = TRUE]
    /\ \E outcome \in {"read_error", "text"}, text \in Bodies :
          IF outcome = "read_error"
          THEN pc' = "done" /\ result' = Err("ReadError") /\ body' = body
          ELSE pc' = "check_size" /\ result' = result /\ body' = text
    /\ UNCHANGED <<url, response, parse_vars, arg, calls, db>>

\* mutant of FetchCheckSize: the size of the body read is not checked
FetchCheckSize_NoLimit ==
    /\ pc = "check_size"
    /\ pc' = "done"
    /\ result' = Ok(body)
    /\ UNCHANGED <<url, response, body, net, parse_vars, arg, calls, db>>

\* lines 174-178
FetchCheckSize ==
    /\ pc = "check_size"
    /\ pc' = "done"
    /\ IF body.len > MAX_RESPONSE_SIZE
       THEN result' = ErrLimit("ResponseTooLarge", MAX_RESPONSE_SIZE)
       ELSE result' = Ok(body)
    /\ UNCHANGED <<url, response, body, net, parse_vars, arg, calls, db>>

InitFetch ==
    /\ pc = "validate_url"
    /\ url \in Urls
    /\ response = NoResponse
    /\ body = NoBody
    /\ net = [client_built |-> FALSE, requests_sent |-> 0, body_read |-> FALSE]
    /\ result = NoResult
    /\ html = <<>> /\ blocks = <<>> /\ json = [t |-> "null"] /\ overflow_checks = FALSE
    /\ arg = <<>> /\ calls = <<>> /\ db = [unique_source_url |-> FALSE, recipes |-> {}]

NextFetch ==
    \/ FetchValidate
    \/ FetchBuildClient
    \/ FetchSend
    \/ FetchCheckStatus
    \/ FetchCheckContentType
    \/ FetchCheckContentLength
    \/ FetchReadBody
    \/ FetchCheckSize

SpecFetch == InitFetch /\ [][NextFetch]_vars
(***************************************************************************)
(* Properties of fetch_url                                                 *)
(***************************************************************************)
NoNetworkActivity == ~net.client_built /\ net.requests_sent = 0 /\ ~net.body_read

\* C1: a URL that does not parse is rejected with InvalidUrl, a URL that
\* parses with a scheme other than http or https is rejected with
\* InvalidUrlScheme, and in both cases the call has ended without building a
\* client or sending a request.
C1_RejectedBeforeNetwork ==
    /\ pc # "validate_url" =>
         LET parsed == UrlParse(url)
         IN  /\ ~parsed.ok =>
                   pc = "done" /\ result = Err("InvalidUrl") /\ NoNetworkActivity
             /\ (parsed.ok /\ parsed.scheme \notin {<<"h","t","t","p">>, <<"h","t","t","p","s">>}) =>
                   pc = "done" /\ result = Err("InvalidUrlScheme") /\ NoNetworkActivity
    /\ ErrKind(result) \in {"InvalidUrl", "InvalidUrlScheme"} => NoNetworkActivity

\* C1 witness: a javascript: URL has been rejected for its scheme.
C1_Witness ==
    /\ pc = "done"
    /\ result = Err("InvalidUrlScheme")
    /\ UrlParse(url).scheme = <<"j","a","v","a","s","c","r","i","p","t">>

DeclaredTooLarge ==
    response.content_length.some /\ response.content_length.v > MAX_RESPONSE_SIZE

ContentTypeCheckPasses ==
    response.content_type.some =>
        is_html_content_type(unwrap_or(to_str(response.content_type.v), <<>>))

\* C2: Ok(body) is returned only after a 2xx status, a passed content-type
\* check, a declared length (if any) of at most 10 MiB and a body of at most
\* 10 MiB, and the body returned is the whole body read; a declared length
\* above 10 MiB ends with ResponseTooLarge before the body is read, and an
\* oversized body ends with ResponseTooLarge after it was read.
C2_OkOnlyWithinLimits ==
    /\ result.tag = "Ok" =>
         /\ is_success(response.status)
         /\ ContentTypeCheckPasses
         /\ ~DeclaredTooLarge
         /\ net.body_read
         /\ body.len <= MAX_RESPONSE_SIZE
         /\ result.v = body
    /\ (DeclaredTooLarge /\ is_success(response.status) /\ ContentTypeCheckPasses
          /\ pc \notin {"check_status", "check_content_type", "check_content_length"}) =>
         pc = "done" /\ result = ErrLimit("ResponseTooLarge", MAX_RESPONSE_SIZE)
                     /\ ~net.body_read
    /\ (pc = "done" /\ body.len > MAX_RESPONSE_SIZE) =>
         net.body_read /\ result = ErrLimit("ResponseTooLarge", MAX_RESPONSE_SIZE)

\* C2 witness: a body of exactly 10 MiB was returned, with a declared length.
C2_Witness ==
    /\ result.tag = "Ok"
    /\ result.v.len = MAX_RESPONSE_SIZE
    /\ response.content_length = Some(MAX_RESPONSE_SIZE)

\* the media type of a Content-Type value: the text before the first ';',
\* trimmed and lower-cased
MediaType(content_type) == to_lowercase(trim(take_until(content_type, {";"})))
HtmlAllowList == { <<"t","e","x","t","/","h","t","m","l">>, <<"a","p","p","l","i","c","a","t","i","o","n","/","x","h","t","m","l","+","x","m","l">> }

\* C3: a declared content type passes the check if and only if its media
\* type is text/html or application/xhtml+xml (case-insensitive, parameters
\* ignored); any other declared type ends with InvalidContentType carrying
\* the received value; an absent content type is never rejected.
C3_MediaTypeAllowList ==
    (is_success(response.status) /\ pc \notin {"check_status", "check_content_type"}) =>
        IF response.content_type.some
        THEN IF MediaType(response.content_type.v) \in HtmlAllowList
             THEN ErrKind(result) # "InvalidContentType"
             ELSE result = ErrReceived("InvalidContentType", response.content_type.v)
        ELSE ErrKind(result) # "InvalidContentType"
(***************************************************************************)
(* serde_json::Value and serde_json::from_str                              *)
(***************************************************************************)
JNull == [t |-> "null"]
JBool(b) == [t |-> "bool", b |-> b]
JInt(n) == [t |-> "int", n |-> n]
\* a number with a fraction or an exponent, kept as its text
JFloat(txt) == [t |-> "float", txt |-> txt]
JStr(s) == [t |-> "str", s |-> s]
JArr(items) == [t |-> "arr", items |-> items]
\* an object: a function from its keys (texts) to its values
JObj(fields) == [t |-> "obj", fields |-> fields]

\* Value::get(key) with a string key: Some(member) of an object, else None
Get(v, key) ==
    IF v.t = "obj" /\ key \in DOMAIN v.fields THEN Some(v.fields[key]) ELSE None
as_str(v) == IF v.t = "str" THEN Some(v.s) ELSE None
as_array(v) == IF v.t = "arr" THEN Some(v.items) ELSE None
\* Value::as_i64: Some for an integer, None for a float and any non-number
as_i64(v) == IF v.t = "int" THEN Some(v.n) ELSE None
is_string(v) == v.t = "str"
is_array(v) == v.t = "arr"
\* opt.and_then(f) for the accessors above
GetStr(v, key) ==
    IF Get(v, key).some THEN as_str(Get(v, key).v) ELSE None
GetArray(v, key) ==
    IF Get(v, key).some THEN as_array(Get(v, key).v) ELSE None

skip_ws(s) == skip_while(s, {" ", "\n", "\t", "\r"})
ParseFail == [ok |-> FALSE]
Parsed(v, rest) == [ok |-> TRUE, v |-> v, rest |-> rest]

DigitValue(c) == CHOOSE n \in 0..9 : <<"0","1","2","3","4","5","6","7","8","9">>[n + 1] = c
RECURSIVE DigitsToInt(_)
DigitsToInt(ds) ==
    IF ds = <<>> THEN 0
    ELSE 10 * DigitsToInt(SubSeq(ds, 1, Len(ds) - 1)) + DigitValue(ds[Len(ds)])

RECURSIVE take_digits(_)
take_digits(s) ==
    IF s # <<>> /\ is_ascii_digit(Head(s)) THEN <<Head(s)>> \o take_digits(Tail(s))
    ELSE <<>>

\* the characters of a string literal after its opening quote; the escapes
\* \" \\ \/ \n \t \r are decoded, a raw control character is an error
RECURSIVE scan_string(_, _)
scan_string(s, acc) ==
    IF s = <<>> THEN ParseFail
    ELSE IF Head(s) = "\"" THEN Parsed(acc, Tail(s))
    ELSE IF Head(s) = "\\"
         THEN IF Len(s) < 2 THEN ParseFail
              ELSE IF s[2] \in {"\"", "\\", "/"}
                   THEN scan_string(Drop(s, 2), Append(acc, s[2]))
              ELSE IF s[2] = "n" THEN scan_string(Drop(s, 2), Append(acc, "\n"))
              ELSE IF s[2] = "t" THEN scan_string(Drop(s, 2), Append(acc, "\t"))
              ELSE IF s[2] = "r" THEN scan_string(Drop(s, 2), Append(acc, "\r"))
              ELSE ParseFail
    ELSE IF Head(s) \in {"\n", "\t", "\r"} THEN ParseFail
    ELSE scan_string(Tail(s), Append(acc, Head(s)))

\* a number: -? digits (no leading zero) with an optional fraction
parse_number(s) ==
    LET neg    == s # <<>> /\ Head(s) = "-"
        s1     == IF neg THEN Tail(s) ELSE s
        int    == take_digits(s1)
        s2     == Drop(s1, Len(int))
        isfrac == s2 # <<>> /\ Head(s2) = "."
        frac   == IF isfrac THEN take_digits(Tail(s2)) ELSE <<>>
        s3     == IF isfrac THEN Drop(s2, 1 + Len(frac)) ELSE s2
    IN  IF int = <<>> THEN ParseFail
        ELSE IF Len(int) > 1 /\ int[1] = "0" THEN ParseFail
        ELSE IF isfrac /\ frac = <<>> THEN ParseFail
        ELSE IF isfrac THEN Parsed(JFloat(Take(s, Len(s) - Len(s3))), s3)
        ELSE Parsed(JInt(IF neg THEN 0 - DigitsToInt(int) ELSE DigitsToInt(int)), s3)

RECURSIVE parse_value(_), parse_items(_, _, _), parse_members(_, _, _)
parse_value(s) ==
    LET s0 == skip_ws(s)
    IN  IF s0 = <<>> THEN ParseFail
        ELSE IF Head(s0) = "{" THEN parse_members(Tail(s0), [k \in {} |-> JNull], TRUE)
        ELSE IF Head(s0) = "[" THEN parse_items(Tail(s0), <<>>, TRUE)
        ELSE IF Head(s0) = "\""
             THEN LET r == scan_string(Tail(s0), <<>>)
                  IN  IF r.ok THEN Parsed(JStr(r.v), r.rest) ELSE ParseFail
        ELSE IF Head(s0) = "-" \/ is_ascii_digit(Head(s0)) THEN parse_number(s0)
        ELSE IF starts_with(s0, <<"t","r","u","e">>) THEN Parsed(JBool(TRUE), Drop(s0, 4))
        ELSE IF starts_with(s0, <<"f","a","l","s","e">>) THEN Parsed(JBool(FALSE), Drop(s0, 5))
        ELSE IF starts_with(s0, <<"n","u","l","l">>) THEN Parsed(JNull, Drop(s0, 4))
        ELSE ParseFail

\* the elements of an array after '[' (first) or after a ','
parse_items(s, acc, first) ==
    LET s0 == skip_ws(s)
    IN  IF first /\ s0 # <<>> /\ Head(s0) = "]" THEN Parsed(JArr(<<>>), Tail(s0))
        ELSE LET r     == parse_value(s0)
                 after == IF r.ok THEN skip_ws(r.rest) ELSE <<>>
             IN  IF ~r.ok \/ after = <<>> THEN ParseFail
                 ELSE IF Head(after) = ","
                      THEN parse_items(Tail(after), Append(acc, r.v), FALSE)
                 ELSE IF Head(after) = "]"
                      THEN Parsed(JArr(Append(acc, r.v)), Tail(after))
                 ELSE ParseFail

\* the members of an object after '{' (first) or after a ','; a repeated key
\* keeps its last value
parse_members(s, acc, first) ==
    LET s0 == skip_ws(s)
    IN  IF first /\ s0 # <<>> /\ Head(s0) = "}" THEN Parsed(JObj(acc), Tail(s0))
        ELSE IF s0 = <<>> \/ Head(s0) # "\"" THEN ParseFail
        ELSE LET k     == scan_string(Tail(s0), <<>>)
                 colon == IF k.ok THEN skip_ws(k.rest) ELSE <<>>
                 r     == IF colon # <<>> /\ Head(colon) = ":"
                          THEN parse_value(Tail(colon)) ELSE ParseFail
                 after == IF r.ok THEN skip_ws(r.rest) ELSE <<>>
                 acc2  == IF r.ok THEN (k.v :> r.v) @@ acc ELSE acc
             IN  IF ~k.ok \/ ~r.ok \/ after = <<>> THEN ParseFail
                 ELSE IF Head(after) = "," THEN parse_members(Tail(after), acc2, FALSE)
                 ELSE IF Head(after) = "}" THEN Parsed(JObj(acc2), Tail(after))
                 ELSE ParseFail

\* serde_json::from_str::<Value>: one value with nothing but whitespace after
from_str(s) ==
    LET r == parse_value(s)
    IN  IF r.ok /\ skip_ws(r.rest) = <<>> THEN Some(r.v) ELSE None
(***************************************************************************)
(* StructuredDataLocator: parser/jsonld.rs                                 *)
(*                                                                         *)
(* A document is the sequence of elements Html::parse_document yields, in  *)
(* document order; an element has a tag, an optional type attribute and    *)
(* its text content.                                                       *)
(***************************************************************************)
ParseErr(kind) == [tag |-> "Err", kind |-> kind]
MalformedRecipe(reason) ==
    [tag |-> "Err", kind |-> "MalformedRecipe", reason |-> reason]


\* Selector script[type="application/ld+json"]: the value of a type
\* attribute of an HTML element is matched ASCII-case-insensitively
MatchesSelector(element) ==
    /\ element.tag = "script"
    /\ element.type.some
    /\ to_lowercase(element.type.v) = <<"a","p","p","l","i","c","a","t","i","o","n","/","l","d","+","j","s","o","n">>

\* Element::inner_html of a script element: its text, unescaped
inner_html(element) == element.text

\* if let Ok(json) = serde_json::from_str(..) { blocks.push(json) }
push_if_ok(blocks_, parsed) ==
    IF parsed.some THEN Append(blocks_, parsed.v) ELSE blocks_

\* for element in document.select(&selector) { .. }
RECURSIVE select_loop(_, _)
select_loop(elements, blocks_) ==
    IF elements = <<>> THEN blocks_
    ELSE select_loop(Tail(elements),
                     IF MatchesSelector(Head(elements))
                     THEN push_if_ok(blocks_, from_str(inner_html(Head(elements))))
                     ELSE blocks_)

\* if blocks.is_empty() { Err(NoJsonLdFound) } else { Ok(blocks) }
blocks_result(blocks_) ==
    IF blocks_ = <<>> THEN ParseErr("NoJsonLdFound") ELSE Ok(blocks_)

\* mutant of extract_jsonld_blocks: only the first element of the document
\* is examined
extract_jsonld_blocks_FirstOnly(document) ==
    blocks_result(select_loop(IF document = <<>> THEN <<>> ELSE <<Head(document)>>, <<>>))

\* extract_jsonld_blocks
extract_jsonld_blocks(document) == blocks_result(select_loop(document, <<>>))

\* is_recipe_type
is_recipe_type(value) ==
    LET type_val == Get(value, <<"@","t","y","p","e">>)
    IN  IF ~type_val.some THEN FALSE
        ELSE IF as_str(type_val.v).some THEN as_str(type_val.v).v = <<"R","e","c","i","p","e">>
        ELSE IF as_array(type_val.v).some
             THEN \E i \in 1..Len(type_val.v.items) :
                     as_str(type_val.v.items[i]) = Some(<<"R","e","c","i","p","e">>)
        ELSE FALSE

\* find_recipes_in_value(value, &mut recipes): the recipes vector afterwards
RECURSIVE find_recipes_in_value(_, _), find_recipes_in_items(_, _)
\* (mutant) the @graph of a Recipe object is searched as well
find_recipes_in_value_Deep(value, recipes_) ==
    IF value.t = "obj"
    THEN IF GetArray(value, <<"@","g","r","a","p","h">>).some
         THEN find_recipes_in_items(GetArray(value, <<"@","g","r","a","p","h">>).v,
                  IF is_recipe_type(value) THEN Append(recipes_, value) ELSE recipes_)
         ELSE IF is_recipe_type(value) THEN Append(recipes_, value) ELSE recipes_
    ELSE IF value.t = "arr" THEN find_recipes_in_items(value.items, recipes_)
    ELSE recipes_

find_recipes_in_value(value, recipes_) ==
    IF value.t = "obj"
    THEN IF is_recipe_type(value) THEN Append(recipes_, value)
         ELSE IF GetArray(value, <<"@","g","r","a","p","h">>).some
              THEN find_recipes_in_items(GetArray(value, <<"@","g","r","a","p","h">>).v, recipes_)
         ELSE recipes_
    ELSE IF value.t = "arr" THEN find_recipes_in_items(value.items, recipes_)
    ELSE recipes_

\* for item in arr { find_recipes_in_value(item, recipes) }
find_recipes_in_items(items, recipes_) ==
    IF items = <<>> THEN recipes_
    ELSE find_recipes_in_items(Tail(items), find_recipes_in_value(Head(items), recipes_))

\* if recipes.len() == 1 { Ok } else if 0 { NoRecipeFound } else { Multiple }
recipes_result(recipes_) ==
    IF Len(recipes_) = 0 THEN ParseErr("NoRecipeFound")
    ELSE IF Len(recipes_) = 1 THEN Ok(recipes_[1])
    ELSE ParseErr("MultipleRecipesFound")

\* mutant of find_recipe_object: only the first block is searched
find_recipe_object_First(blocks_) ==
    recipes_result(find_recipes_in_items(IF blocks_ = <<>> THEN <<>> ELSE <<Head(blocks_)>>, <<>>))

\* find_recipe_object
find_recipe_object(blocks_) ==
    recipes_result(find_recipes_in_items(blocks_, <<>>))
(***************************************************************************)
(* 64-bit integers.  TLC's integers have 32 bits, so i64 is modelled with  *)
(* I64Bits bits: the same parse failures, overflow checks and wrap-around, *)
(* at smaller numbers.                                                     *)
(***************************************************************************)
I64Bits == 16
I64Max == 2 ^ (I64Bits - 1) - 1
I64Min == 0 - 2 ^ (I64Bits - 1)
\* two's-complement wrap-around of an arithmetic result
Wrap(n) == ((n - I64Min) % (2 ^ I64Bits)) + I64Min
Overflows(n) == n > I64Max \/ n < I64Min

\* the value of a run of digits, capped at I64Max + 1
RECURSIVE DigitsCapped(_, _)
DigitsCapped(ds, acc) ==
    IF ds = <<>> THEN acc
    ELSE IF acc > I64Max THEN I64Max + 1
    ELSE DigitsCapped(Tail(ds), 10 * acc + DigitValue(Head(ds)))

\* str::parse::<i64> of a text of ASCII digits: None when the text is empty
\* or the number does not fit
parse_i64(ds) ==
    IF ds = <<>> THEN None
    ELSE IF DigitsCapped(ds, 0) > I64Max THEN None
    ELSE Some(DigitsCapped(ds, 0))

(***************************************************************************)
(* DurationParser: parser/duration.rs                                      *)
(***************************************************************************)
Minutes(n) == [panic |-> FALSE, v |-> n]
DurationPanic == [panic |-> TRUE]

\* minutes += amount: with overflow checks (a debug build) an overflow
\* panics, without them (a release build) the result wraps
checked_add(minutes, amount, overflow_checks_) ==
    IF Overflows(minutes + amount)
    THEN IF overflow_checks_ THEN DurationPanic ELSE Minutes(Wrap(minutes + amount))
    ELSE Minutes(minutes + amount)

\* the while loop of parse_iso8601_duration over chars[i..], with the
\* running total and the digit buffer
RECURSIVE duration_loop(_, _, _, _)
duration_loop(chars, minutes, current_num, overflow_checks_) ==
    IF chars = <<>> THEN Minutes(minutes)
    ELSE LET c == Head(chars)
             num == unwrap_or(parse_i64(current_num), 0)
         IN  IF is_ascii_digit(c)
             THEN duration_loop(Tail(chars), minutes, Append(current_num, c), overflow_checks_)
             ELSE IF c = "H"
                  THEN IF Overflows(num * 60) /\ overflow_checks_ THEN DurationPanic
                       ELSE LET sum == checked_add(minutes, Wrap(num * 60), overflow_checks_)
                            IN  IF sum.panic THEN DurationPanic
                                ELSE duration_loop(Tail(chars), sum.v, <<>>, overflow_checks_)
             ELSE IF c = "M"
                  THEN LET sum == checked_add(minutes, num, overflow_checks_)
                       IN  IF sum.panic THEN DurationPanic
                           ELSE duration_loop(Tail(chars), sum.v, <<>>, overflow_checks_)
             ELSE duration_loop(Tail(chars), minutes, <<>>, overflow_checks_)

\* parse_iso8601_duration
parse_iso8601_duration(duration, overflow_checks_) ==
    IF ~starts_with(duration, <<"P","T">>) /\ ~starts_with(duration, <<"P">>) THEN Minutes(0)
    ELSE LET chars == duration
             i == IF 1 < Len(chars) /\ chars[2] = "T" THEN 2 ELSE 1
         IN  duration_loop(Drop(chars, i), 0, <<>>, overflow_checks_)
(***************************************************************************)
(* html_escape::decode_html_entities, on the entities the model uses: the  *)
(* named entities amp, lt, gt, quot, apos and nbsp and the numeric         *)
(* references #38, #39, #188, #189 and #8490; a '&' that starts none of    *)
(* them is kept as it is, and decoded text is not decoded again.           *)
(***************************************************************************)
EntityTable ==
    (<<"a","m","p">> :> "&") @@ (<<"l","t">> :> "<") @@ (<<"g","t">> :> ">") @@ (<<"q","u","o","t">> :> "\"")
    @@ (<<"a","p","o","s">> :> "'") @@ (<<"n","b","s","p">> :> "U+00A0") @@ (<<"#","3","8">> :> "&")
    @@ (<<"#","3","9">> :> "'") @@ (<<"#","8","4","9","0">> :> "U+212A")

RECURSIVE decode_html_entities(_)
decode_html_entities(s) ==
    IF s = <<>> THEN <<>>
    ELSE IF Head(s) = "&"
         THEN LET semi == find_char(s, ";")
                  name == SubSeq(s, 2, semi - 1)
              IN  IF semi > 0 /\ name \in DOMAIN EntityTable
                  THEN <<EntityTable[name]>> \o decode_html_entities(Drop(s, semi))
                  ELSE <<"&">> \o decode_html_entities(Tail(s))
    ELSE <<Head(s)>> \o decode_html_entities(Tail(s))

(***************************************************************************)
(* f64.  A value is a rational [n, d] in lowest terms, d > 0, and every    *)
(* parse and arithmetic operation rounds its exact result to the nearest   *)
(* value with F64Bits significant bits, ties to even: the rounding of an   *)
(* f64 (53 bits), at a smaller precision.  The exponent range is not       *)
(* bounded.                                                                *)
(***************************************************************************)
F64Bits == 11
Abs(n) == IF n < 0 THEN 0 - n ELSE n
RECURSIVE GCD(_, _)
GCD(a, b) == IF b = 0 THEN a ELSE GCD(b, a % b)
Rat(n, d) ==
    LET g == GCD(Abs(n), Abs(d))
        sgn == IF d < 0 THEN 0 - 1 ELSE 1
    IN  [n |-> sgn * (n \div g), d |-> sgn * (d \div g)]
RatAdd(a, b) ==
    LET g == GCD(a.d, b.d)
    IN  Rat(a.n * (b.d \div g) + b.n * (a.d \div g), (a.d \div g) * b.d)
\* a / b for b # 0
RatDiv(a, b) ==
    LET g == GCD(Abs(a.n), Abs(b.n))
        h == GCD(a.d, b.d)
    IN  Rat((a.n \div g) * (b.d \div h), (a.d \div h) * (b.n \div g))
\* the nearest value to a / d * 2^e, for a, d > 0
RECURSIVE nearest(_, _, _)
nearest(a, d, e) ==
    IF a \div d >= 2 ^ F64Bits
    THEN (IF a % 2 = 0 THEN nearest(a \div 2, d, e + 1) ELSE nearest(a, 2 * d, e + 1))
    ELSE IF a \div d < 2 ^ (F64Bits - 1)
    THEN (IF d % 2 = 0 THEN nearest(a, d \div 2, e - 1) ELSE nearest(2 * a, d, e - 1))
    ELSE LET m == a \div d
             up == 2 * (a % d) > d \/ (2 * (a % d) = d /\ m % 2 = 1)
             significand == IF up THEN m + 1 ELSE m
         IN  IF e >= 0 THEN Rat(significand * 2 ^ e, 1) ELSE Rat(significand, 2 ^ (0 - e))
\* the f64 nearest to the rational r
f64(r) ==
    IF r.n = 0 THEN r
    ELSE IF r.n < 0 THEN Rat(0 - nearest(0 - r.n, r.d, 0).n, nearest(0 - r.n, r.d, 0).d)
    ELSE nearest(r.n, r.d, 0)
RECURSIVE Pow10(_)
Pow10(k) == IF k = 0 THEN 1 ELSE 10 * Pow10(k - 1)

\* str::parse::<f64> of a text over digits, '.' and '-': an optional sign,
\* then digits with at most one '.', at least one digit in all
parse_f64(s) ==
    LET neg  == s # <<>> /\ Head(s) = "-"
        unsigned == IF neg THEN Tail(s) ELSE s
        int  == take_digits(unsigned)
        s2   == Drop(unsigned, Len(int))
        dot  == s2 # <<>> /\ Head(s2) = "."
        frac == IF dot THEN take_digits(Tail(s2)) ELSE <<>>
        rest == IF dot THEN Drop(s2, 1 + Len(frac)) ELSE s2
        mag  == Rat(DigitsToInt(int) * Pow10(Len(frac)) + DigitsToInt(frac),
                    Pow10(Len(frac)))
    IN  IF rest # <<>> \/ (int = <<>> /\ frac = <<>>) THEN None
        ELSE Some(f64(IF neg THEN Rat(0 - mag.n, mag.d) ELSE mag))

\* str::split(sep): the pieces between the occurrences of the character sep
RECURSIVE split_char(_, _)
split_char(s, sep) ==
    LET i == find_char(s, sep)
    IN  IF i = 0 THEN <<s>> ELSE <<Take(s, i - 1)>> \o split_char(Drop(s, i), sep)

\* str::split_whitespace: the non-empty runs of non-whitespace characters
RECURSIVE split_whitespace(_)
split_whitespace(s) ==
    LET s0 == trim_start(s)
        word == take_until(s0, {" ", "\t", "\n", "\r", "U+00A0"})
    IN  IF s0 = <<>> THEN <<>>
        ELSE <<word>> \o split_whitespace(Drop(s0, Len(word)))

\* (mutant) a fraction counts as its numerator
parse_fraction_NumeratorOnly(s) ==
    unwrap_or(parse_f64(trim(split_char(s, "/")[1])), Rat(0, 1))

\* parse_fraction
parse_fraction(s) ==
    LET parts == split_char(s, "/")
        num == unwrap_or(parse_f64(trim(parts[1])), Rat(0, 1))
        den == unwrap_or(parse_f64(trim(parts[2])), Rat(1, 1))
    IN  IF Len(parts) = 2 /\ den.n # 0 THEN f64(RatDiv(num, den)) ELSE Rat(0, 1)

\* parse_number_string
RECURSIVE parse_number_string(_)
\* parse_number_string without the range branch
parse_number_string_NoRange(str) ==
    LET s == trim(str)
        parts == split_whitespace(s)
    IN  IF Len(parts) = 2
        THEN f64(RatAdd(unwrap_or(parse_f64(parts[1]), Rat(0, 1)), parse_fraction(parts[2])))
        ELSE IF contains(s, <<"/">>) THEN parse_fraction(s)
        ELSE unwrap_or(parse_f64(s), Rat(0, 1))

parse_number_string(str) ==
    LET s == trim(str)
        dash == find_char(s, "-")
        parts == split_whitespace(s)
    IN  IF dash > 1 THEN parse_number_string(Take(s, dash - 1))
        ELSE IF Len(parts) = 2
             THEN f64(RatAdd(unwrap_or(parse_f64(parts[1]), Rat(0, 1)), parse_fraction(parts[2])))
        ELSE IF contains(s, <<"/">>) THEN parse_fraction(s)
        ELSE unwrap_or(parse_f64(s), Rat(0, 1))

\* the second loop of parse_quantity from character i on: whether a number
\* character was found and the index of the last character of the number
RECURSIVE quantity_scan(_, _, _, _)
quantity_scan(input, i, found_number, end_idx) ==
    IF i > Len(input) THEN [found |-> found_number, end |-> end_idx]
    ELSE LET c == input[i]
         IN  IF is_ascii_digit(c) \/ c = "/" \/ c = "." \/ c = "-"
             THEN quantity_scan(input, i + 1, TRUE, i)
             ELSE IF is_whitespace(c) /\ found_number
                       /\ i + 1 <= Len(input) /\ is_ascii_digit(input[i + 1])
                  THEN quantity_scan(input, i + 1, found_number, i)
             ELSE [found |-> found_number, end |-> end_idx]

\* parse_quantity: (quantity, rest)
parse_quantity(input) ==
    LET start_idx == Len(input) - Len(trim_start(input)) + 1
        scan == quantity_scan(input, start_idx, FALSE, 0)
    IN  IF ~scan.found THEN [quantity |-> Rat(0, 1), rest |-> input]
        ELSE [quantity |-> parse_number_string(SubSeq(input, start_idx, scan.end)),
              rest |-> Drop(input, scan.end)]

(***************************************************************************)
(* IngredientLineParser: parser/ingredients.rs                             *)
(***************************************************************************)
\* the units array of parse_unit, in its order
Units ==
    << <<"c","u","p","s">>,
       <<"c","u","p">>,
       <<"c">>,
       <<"t","a","b","l","e","s","p","o","o","n","s">>,
       <<"t","a","b","l","e","s","p","o","o","n">>,
       <<"t","b","s","p">>,
       <<"t","b","s">>,
       <<"t","b">>,
       <<"t","e","a","s","p","o","o","n","s">>,
       <<"t","e","a","s","p","o","o","n">>,
       <<"t","s","p">>,
       <<"t","s">>,
       <<"f","l","u","i","d"," ","o","u","n","c","e","s">>,
       <<"f","l","u","i","d"," ","o","u","n","c","e">>,
       <<"f","l"," ","o","z">>,
       <<"m","i","l","l","i","l","i","t","e","r","s">>,
       <<"m","i","l","l","i","l","i","t","e","r">>,
       <<"m","l">>,
       <<"l","i","t","e","r","s">>,
       <<"l","i","t","e","r">>,
       <<"l">>,
       <<"p","i","n","t","s">>,
       <<"p","i","n","t">>,
       <<"p","t">>,
       <<"q","u","a","r","t","s">>,
       <<"q","u","a","r","t">>,
       <<"q","t">>,
       <<"g","a","l","l","o","n","s">>,
       <<"g","a","l","l","o","n">>,
       <<"g","a","l">>,
       <<"p","o","u","n","d","s">>,
       <<"p","o","u","n","d">>,
       <<"l","b","s">>,
       <<"l","b">>,
       <<"o","u","n","c","e","s">>,
       <<"o","u","n","c","e">>,
       <<"o","z">>,
       <<"k","i","l","o","g","r","a","m","s">>,
       <<"k","i","l","o","g","r","a","m">>,
       <<"k","g">>,
       <<"g","r","a","m","s">>,
       <<"g","r","a","m">>,
       <<"g">>,
       <<"c","l","o","v","e","s">>,
       <<"c","l","o","v","e">>,
       <<"s","l","i","c","e","s">>,
       <<"s","l","i","c","e">>,
       <<"p","i","e","c","e","s">>,
       <<"p","i","e","c","e">>,
       <<"c","a","n","s">>,
       <<"c","a","n">>,
       <<"b","u","n","c","h","e","s">>,
       <<"b","u","n","c","h">>,
       <<"h","e","a","d","s">>,
       <<"h","e","a","d">>,
       <<"s","t","a","l","k","s">>,
       <<"s","t","a","l","k">>,
       <<"s","p","r","i","g","s">>,
       <<"s","p","r","i","g">>,
       <<"p","a","c","k","a","g","e","s">>,
       <<"p","a","c","k","a","g","e">>,
       <<"p","k","g">>,
       <<"p","i","n","c","h","e","s">>,
       <<"p","i","n","c","h">>,
       <<"d","a","s","h","e","s">>,
       <<"d","a","s","h">>,
       <<"l","a","r","g","e">>,
       <<"m","e","d","i","u","m">>,
       <<"s","m","a","l","l">> >>

\* &input[..n] and &input[n..] for a byte offset n: a panic unless n is a
\* character boundary of input
ByteSplit(input, n) ==
    IF \E k \in 0..Len(input) : PrefixBytes(input, k) = n
    THEN LET k == CHOOSE j \in 0..Len(input) : PrefixBytes(input, j) = n
         IN  [panic |-> FALSE, unit |-> Take(input, k), name |-> Drop(input, k)]
    ELSE [panic |-> TRUE]

\* the test of the for loop of parse_unit for units[i]: lower starts with the
\* unit and the character of input at index unit_len is absent, whitespace
\* or a comma
UnitMatches(input, lower, i) ==
    LET unit_len == Len(Units[i])
    IN  /\ starts_with(lower, Units[i])
        /\ \/ Len(input) <= unit_len
           \/ is_whitespace(input[unit_len + 1])
           \/ input[unit_len + 1] = ","

\* parse_unit: (unit, name), or a panic
RECURSIVE parse_unit(_)
\* parse_unit without the parenthetical branch
parse_unit_NoAside(str) ==
    LET input == trim(str)
        lower == to_lowercase(input)
        hits  == {i \in 1..Len(Units) : UnitMatches(input, lower, i)}
        first == CHOOSE i \in hits : \A j \in hits : i <= j
    IN  IF hits # {} THEN ByteSplit(input, Len(Units[first]))
        ELSE [panic |-> FALSE, unit |-> <<>>, name |-> input]

parse_unit(str) ==
    LET input == trim(str)
        lower == to_lowercase(input)
        hits  == {i \in 1..Len(Units) : UnitMatches(input, lower, i)}
        first == CHOOSE i \in hits : \A j \in hits : i <= j
        close_paren == find_char(input, ")")
    IN  IF hits # {} THEN ByteSplit(input, Len(Units[first]))
        ELSE IF starts_with(input, <<"(">>) /\ close_paren > 0
             THEN parse_unit(trim_start(Drop(input, close_paren)))
        ELSE [panic |-> FALSE, unit |-> <<>>, name |-> input]

\* parse_ingredient: a ParsedIngredient, or a panic
parse_ingredient(line) ==
    LET decoded == decode_html_entities(line)
        input == trim(decoded)
        q == parse_quantity(input)
        u == parse_unit(trim(q.rest))
    IN  IF u.panic THEN [panic |-> TRUE]
        ELSE [panic |-> FALSE, quantity |-> q.quantity, unit |-> u.unit,
              name |-> trim(u.name)]

(***************************************************************************)
(* QuantityAggregator: utils/units.rs.  A unit is a text, a quantity an    *)
(* f64, an item a record [quantity, unit].                                 *)
(***************************************************************************)

\* get_unit_category
get_unit_category(unit) ==
    LET unit_lower == to_lowercase(unit)
    IN  IF unit_lower \in
              {<<"c","u","p">>, <<"c","u","p","s">>, <<"c">>, <<"t","a","b","l","e","s","p","o","o","n">>, <<"t","a","b","l","e","s","p","o","o","n","s">>, <<"t","b","s","p">>, <<"t","b","s">>,
               <<"t","e","a","s","p","o","o","n">>, <<"t","e","a","s","p","o","o","n","s">>, <<"t","s","p">>, <<"m","l">>, <<"m","i","l","l","i","l","i","t","e","r">>, <<"m","i","l","l","i","l","i","t","e","r","s">>,
               <<"l">>, <<"l","i","t","e","r">>, <<"l","i","t","e","r","s">>, <<"f","l"," ","o","z">>, <<"f","l","u","i","d"," ","o","u","n","c","e">>, <<"f","l","u","i","d"," ","o","u","n","c","e","s">>,
               <<"p","i","n","t">>, <<"p","i","n","t","s">>, <<"p","t">>, <<"q","u","a","r","t">>, <<"q","u","a","r","t","s">>, <<"q","t">>,
               <<"g","a","l","l","o","n">>, <<"g","a","l","l","o","n","s">>, <<"g","a","l">>}
        THEN "Volume"
        ELSE IF unit_lower \in
              {<<"g">>, <<"g","r","a","m">>, <<"g","r","a","m","s">>, <<"k","g">>, <<"k","i","l","o","g","r","a","m">>, <<"k","i","l","o","g","r","a","m","s">>,
               <<"o","z">>, <<"o","u","n","c","e">>, <<"o","u","n","c","e","s">>, <<"l","b">>, <<"l","b","s">>, <<"p","o","u","n","d">>, <<"p","o","u","n","d","s">>}
        THEN "Weight"
        ELSE IF unit_lower \in
              {<<>>, <<"w","h","o","l","e">>, <<"p","i","e","c","e">>, <<"p","i","e","c","e","s">>, <<"c","l","o","v","e">>, <<"c","l","o","v","e","s">>, <<"s","l","i","c","e">>,
               <<"s","l","i","c","e","s">>, <<"c","a","n">>, <<"c","a","n","s">>, <<"b","u","n","c","h">>, <<"b","u","n","c","h","e","s">>, <<"h","e","a","d">>, <<"h","e","a","d","s">>,
               <<"s","t","a","l","k">>, <<"s","t","a","l","k","s">>, <<"s","p","r","i","g">>, <<"s","p","r","i","g","s">>}
        THEN "Count"
        ELSE "Other"

\* get_conversion_factor: the factor to the base unit (ml, g), or None
get_conversion_factor(unit) ==
    LET unit_lower == to_lowercase(unit)
    IN  IF unit_lower \in {<<"m","l">>, <<"m","i","l","l","i","l","i","t","e","r">>, <<"m","i","l","l","i","l","i","t","e","r","s">>} THEN Some(f64(Rat(1, 1)))
        ELSE IF unit_lower \in {<<"l">>, <<"l","i","t","e","r">>, <<"l","i","t","e","r","s">>} THEN Some(f64(Rat(1000, 1)))
        ELSE IF unit_lower \in {<<"t","s","p">>, <<"t","e","a","s","p","o","o","n">>, <<"t","e","a","s","p","o","o","n","s">>} THEN Some(f64(Rat(4929, 1000)))
        ELSE IF unit_lower \in {<<"t","b","s","p">>, <<"t","b","s">>, <<"t","a","b","l","e","s","p","o","o","n">>, <<"t","a","b","l","e","s","p","o","o","n","s">>}
             THEN Some(f64(Rat(14787, 1000)))
        ELSE IF unit_lower \in {<<"f","l"," ","o","z">>, <<"f","l","u","i","d"," ","o","u","n","c","e">>, <<"f","l","u","i","d"," ","o","u","n","c","e","s">>}
             THEN Some(f64(Rat(29574, 1000)))
        ELSE IF unit_lower \in {<<"c","u","p">>, <<"c","u","p","s">>, <<"c">>} THEN Some(f64(Rat(236588, 1000)))
        ELSE IF unit_lower \in {<<"p","i","n","t">>, <<"p","i","n","t","s">>, <<"p","t">>} THEN Some(f64(Rat(473176, 1000)))
        ELSE IF unit_lower \in {<<"q","u","a","r","t">>, <<"q","u","a","r","t","s">>, <<"q","t">>} THEN Some(f64(Rat(946353, 1000)))
        ELSE IF unit_lower \in {<<"g","a","l","l","o","n">>, <<"g","a","l","l","o","n","s">>, <<"g","a","l">>} THEN Some(f64(Rat(378541, 100)))
        ELSE IF unit_lower \in {<<"g">>, <<"g","r","a","m">>, <<"g","r","a","m","s">>} THEN Some(f64(Rat(1, 1)))
        ELSE IF unit_lower \in {<<"k","g">>, <<"k","i","l","o","g","r","a","m">>, <<"k","i","l","o","g","r","a","m","s">>} THEN Some(f64(Rat(1000, 1)))
        ELSE IF unit_lower \in {<<"o","z">>, <<"o","u","n","c","e">>, <<"o","u","n","c","e","s">>} THEN Some(f64(Rat(283495, 10000)))
        ELSE IF unit_lower \in {<<"l","b">>, <<"l","b","s">>, <<"p","o","u","n","d">>, <<"p","o","u","n","d","s">>}
             THEN Some(f64(Rat(453592, 1000)))
        ELSE None

\* normalize_unit
normalize_unit(unit) ==
    LET unit_lower == to_lowercase(unit)
    IN  IF unit_lower = <<"c">> THEN <<"c","u","p">>
        ELSE IF unit_lower = <<"c","u","p","s">> THEN <<"c","u","p">>
        ELSE IF unit_lower \in {<<"t","b","s">>, <<"t","a","b","l","e","s","p","o","o","n","s">>} THEN <<"t","b","s","p">>
        ELSE IF unit_lower = <<"t","e","a","s","p","o","o","n","s">> THEN <<"t","s","p">>
        ELSE IF unit_lower \in {<<"m","i","l","l","i","l","i","t","e","r","s">>, <<"m","i","l","l","i","l","i","t","e","r">>} THEN <<"m","l">>
        ELSE IF unit_lower \in {<<"l","i","t","e","r","s">>, <<"l","i","t","e","r">>} THEN <<"L">>
        ELSE IF unit_lower \in {<<"f","l","u","i","d"," ","o","u","n","c","e","s">>, <<"f","l","u","i","d"," ","o","u","n","c","e">>, <<"f","l"," ","o","z">>} THEN <<"f","l"," ","o","z">>
        ELSE IF unit_lower \in {<<"p","i","n","t","s">>, <<"p","t">>} THEN <<"p","i","n","t">>
        ELSE IF unit_lower \in {<<"q","u","a","r","t","s">>, <<"q","t">>} THEN <<"q","u","a","r","t">>
        ELSE IF unit_lower \in {<<"g","a","l","l","o","n","s">>, <<"g","a","l">>} THEN <<"g","a","l","l","o","n">>
        ELSE IF unit_lower \in {<<"g","r","a","m","s">>, <<"g","r","a","m">>} THEN <<"g">>
        ELSE IF unit_lower \in {<<"k","i","l","o","g","r","a","m","s">>, <<"k","i","l","o","g","r","a","m">>} THEN <<"k","g">>
        ELSE IF unit_lower \in {<<"o","u","n","c","e","s">>, <<"o","u","n","c","e">>} THEN <<"o","z">>
        ELSE IF unit_lower \in {<<"p","o","u","n","d","s">>, <<"p","o","u","n","d">>, <<"l","b","s">>} THEN <<"l","b">>
        ELSE IF unit_lower \in {<<"p","i","e","c","e","s">>, <<"p","i","e","c","e">>} THEN <<>>
        ELSE unit_lower

\* convert_quantity without the factors: the quantity is taken over as it is
convert_quantity_NoFactor(quantity, from_unit, to_unit) ==
    LET from_cat == get_unit_category(from_unit)
        from_factor == get_conversion_factor(from_unit)
        to_factor == get_conversion_factor(to_unit)
    IN  IF from_cat # get_unit_category(to_unit) THEN None
        ELSE IF from_cat \in {"Count", "Other"}
             THEN IF normalize_unit(from_unit) = normalize_unit(to_unit)
                  THEN Some(quantity) ELSE None
        ELSE IF ~from_factor.some \/ ~to_factor.some THEN None
        ELSE Some(quantity)

\* convert_quantity: Some(quantity in to_unit), or None
convert_quantity(quantity, from_unit, to_unit) ==
    LET from_cat == get_unit_category(from_unit)
        from_factor == get_conversion_factor(from_unit)
        to_factor == get_conversion_factor(to_unit)
    IN  IF from_cat # get_unit_category(to_unit) THEN None
        ELSE IF from_cat \in {"Count", "Other"}
             THEN IF normalize_unit(from_unit) = normalize_unit(to_unit)
                  THEN Some(quantity) ELSE None
        ELSE IF ~from_factor.some \/ ~to_factor.some THEN None
        ELSE \* quantity * from_factor / to_factor; the product is taken as the
             \* quotient by the reciprocal of from_factor
             Some(f64(RatDiv(f64(RatDiv(quantity, Rat(from_factor.v.d, from_factor.v.n))),
                             to_factor.v)))

\* find_best_target_unit: the units it can return.  max_by_key runs over a
\* HashMap, whose iteration order depends on the hasher's random keys, and
\* returns the last entry with the greatest count in that order: any of the
\* most frequent normalized units; "" for no items
find_best_target_unit(items) ==
    LET units == {normalize_unit(items[i].unit) : i \in 1..Len(items)}
        count(u) == Cardinality({i \in 1..Len(items) : normalize_unit(items[i].unit) = u})
    IN  IF units = {} THEN {<<>>}
        ELSE {u \in units : \A v \in units : count(v) <= count(u)}

\* (mutant) the last quantity instead of the sum
f64_sum_Last(quantities) ==
    IF quantities = <<>> THEN Rat(0, 1) ELSE quantities[Len(quantities)]

\* 0.0 + the quantities of a list, in order
RECURSIVE f64_sum(_)
f64_sum(quantities) ==
    IF quantities = <<>> THEN Rat(0, 1)
    ELSE f64(RatAdd(f64_sum(SubSeq(quantities, 1, Len(quantities) - 1)),
                    quantities[Len(quantities)]))

\* aggregate_quantities: the vectors it can return.  by_category and
\* by_unit are HashMaps, so the categories are visited in any order and the
\* entries of a Count or Other group are pushed in any order; the target unit
\* of a Volume or Weight group is any outcome of find_best_target_unit
aggregate_quantities(items) ==
    LET by_category(cat) == SelectSeq(items, LAMBDA it : get_unit_category(it.unit) = cat)
        by_unit(group, u) ==
            LET same == SelectSeq(group, LAMBDA it : normalize_unit(it.unit) = u)
            IN  [quantity |-> f64_sum([i \in 1..Len(same) |-> same[i].quantity]),
                 unit |-> u, is_converted |-> FALSE]
        orders(entries) ==
            {r \in [1..Cardinality(entries) -> entries] :
                \A i, j \in 1..Cardinality(entries) : r[i] = r[j] => i = j}
        counted(group) ==
            orders({by_unit(group, normalize_unit(group[i].unit)) : i \in 1..Len(group)})
        converted(group, target_unit) ==
            LET done == SelectSeq(group,
                            LAMBDA it : convert_quantity(it.quantity, it.unit, target_unit).some)
            IN  [quantity |-> f64_sum([i \in 1..Len(done) |->
                                convert_quantity(done[i].quantity, done[i].unit, target_unit).v]),
                 unit |-> normalize_unit(target_unit),
                 is_converted |-> \E i \in 1..Len(done) :
                                      normalize_unit(done[i].unit) # normalize_unit(target_unit)]
        convertible(group) ==
            IF group = <<>> THEN {<<>>}
            ELSE {<<converted(group, t)>> : t \in find_best_target_unit(group)}
        visits == {p \in [1..4 -> {"Volume", "Weight", "Count", "Other"}] :
                      \A i, j \in 1..4 : p[i] = p[j] => i = j}
        results(p, pushed) == pushed[p[1]] \o pushed[p[2]] \o pushed[p[3]] \o pushed[p[4]]
    IN  IF items = <<>> THEN {<<>>}
        ELSE {results(p, [Volume |-> v, Weight |-> w, Count |-> c, Other |-> o]) :
                 p \in visits,
                 v \in convertible(by_category("Volume")),
                 w \in convertible(by_category("Weight")),
                 c \in counted(by_category("Count")),
                 o \in counted(by_category("Other"))}
(***************************************************************************)
(* RecipeMapper: parser/mod.rs                                             *)
(***************************************************************************)
Panic(at) == [tag |-> "Panic", at |-> at]

\* decode_text
decode_text(s) == decode_html_entities(s)

\* the text fields of the elements of a HowToSection's itemListElement
RECURSIVE section_steps(_)
section_steps(items) ==
    IF items = <<>> THEN <<>>
    ELSE (IF GetStr(Head(items), <<"t","e","x","t">>).some
          THEN <<decode_text(GetStr(Head(items), <<"t","e","x","t">>).v)>> ELSE <<>>)
         \o section_steps(Tail(items))

\* what one element of the recipeInstructions array adds to steps
instruction_steps(item) ==
    IF is_string(item) THEN <<decode_text(item.s)>>
    ELSE LET item_type == GetStr(item, <<"@","t","y","p","e">>)
         IN  IF ~item_type.some THEN <<>>
             ELSE IF item_type.v = <<"H","o","w","T","o","S","t","e","p">>
                  THEN IF GetStr(item, <<"t","e","x","t">>).some
                       THEN <<decode_text(GetStr(item, <<"t","e","x","t">>).v)>> ELSE <<>>
             ELSE IF item_type.v = <<"H","o","w","T","o","S","e","c","t","i","o","n">>
                  THEN IF GetArray(item, <<"i","t","e","m","L","i","s","t","E","l","e","m","e","n","t">>).some
                       THEN section_steps(GetArray(item, <<"i","t","e","m","L","i","s","t","E","l","e","m","e","n","t">>).v)
                       ELSE <<>>
             ELSE <<>>

RECURSIVE instruction_loop(_)
\* instruction_loop adding the steps of each element in front of the others
instruction_loop_Reversed(arr) ==
    IF arr = <<>> THEN <<>>
    ELSE instruction_loop(Tail(arr)) \o instruction_steps(Head(arr))

instruction_loop(arr) ==
    IF arr = <<>> THEN <<>>
    ELSE instruction_steps(Head(arr)) \o instruction_loop(Tail(arr))

\* parse_instructions (it always returns Ok)
parse_instructions(json_) ==
    LET instructions_value == Get(json_, <<"r","e","c","i","p","e","I","n","s","t","r","u","c","t","i","o","n","s">>)
    IN  IF ~instructions_value.some THEN <<>>
        ELSE IF is_string(instructions_value.v)
             THEN <<decode_text(instructions_value.v.s)>>
        ELSE IF is_array(instructions_value.v)
             THEN instruction_loop(instructions_value.v.items)
        ELSE <<>>

\* the first run of ASCII digits of s, empty if s has no digit
RECURSIVE first_digit_run(_)
first_digit_run(s) ==
    IF s = <<>> THEN <<>>
    ELSE IF is_ascii_digit(Head(s)) THEN take_digits(s)
    ELSE first_digit_run(Tail(s))

\* extract_first_number
extract_first_number(s) ==
    LET num_str == take_digits(s)
    IN  IF num_str = <<>> THEN parse_i64(first_digit_run(s)) ELSE parse_i64(num_str)

\* parse_servings
parse_servings(json_) ==
    LET yield_val == Get(json_, <<"r","e","c","i","p","e","Y","i","e","l","d">>)
    IN  IF ~yield_val.some THEN 4
        ELSE IF as_str(yield_val.v).some
             THEN unwrap_or(extract_first_number(yield_val.v.s), 4)
        ELSE IF as_i64(yield_val.v).some THEN as_i64(yield_val.v).v
        ELSE IF as_array(yield_val.v).some /\ yield_val.v.items # <<>>
                  /\ as_str(Head(yield_val.v.items)).some
             THEN unwrap_or(extract_first_number(Head(yield_val.v.items).s), 4)
        ELSE 4

\* mutant of validate_url of parser/mod.rs: every text is accepted
parser_validate_url_Any(u) == Some(u)

\* validate_url of parser/mod.rs
parser_validate_url(u) ==
    IF starts_with(u, <<"h","t","t","p",":","/","/">>) \/ starts_with(u, <<"h","t","t","p","s",":","/","/">>) THEN Some(u) ELSE None

\* the for loop of parse_image over the elements of an image array
RECURSIVE image_loop(_)
image_loop(arr) ==
    IF arr = <<>> THEN None
    ELSE LET item == Head(arr)
             candidate == IF as_str(item).some THEN as_str(item)
                          ELSE GetStr(item, <<"u","r","l">>)
         IN  IF candidate.some /\ parser_validate_url(candidate.v).some
             THEN parser_validate_url(candidate.v)
             ELSE image_loop(Tail(arr))

\* parse_image
parse_image(json_) ==
    LET image_val == Get(json_, <<"i","m","a","g","e">>)
    IN  IF ~image_val.some THEN None
        ELSE IF as_str(image_val.v).some THEN parser_validate_url(image_val.v.s)
        ELSE IF as_array(image_val.v).some /\ image_loop(image_val.v.items).some
             THEN image_loop(image_val.v.items)
        ELSE IF GetStr(image_val.v, <<"u","r","l">>).some
             THEN parser_validate_url(GetStr(image_val.v, <<"u","r","l">>).v)
        ELSE None

\* lines 128-136: author
parse_author(json_) ==
    LET v == Get(json_, <<"a","u","t","h","o","r">>)
    IN  IF ~v.some THEN None
        ELSE IF is_string(v.v) THEN as_str(v.v)
        ELSE GetStr(v.v, <<"n","a","m","e">>)

\* lines 138-162: recipeCategory and recipeCuisine
parse_first_string(json_, key) ==
    LET v == Get(json_, key)
    IN  IF ~v.some THEN None
        ELSE IF is_string(v.v) THEN as_str(v.v)
        ELSE IF is_array(v.v)
             THEN IF v.v.items = <<>> THEN None ELSE as_str(Head(v.v.items))
        ELSE None

\* lines 106-122: a prepTime, cookTime or totalTime field
parse_time(json_, key, overflow_checks_) ==
    IF GetStr(json_, key).some
    THEN parse_iso8601_duration(GetStr(json_, key).v, overflow_checks_)
    ELSE Minutes(0)

\* lines 78-82: the string entries of recipeIngredient, each parsed
RECURSIVE parse_ingredients(_)
parse_ingredients(ingredients_raw) ==
    IF ingredients_raw = <<>> THEN <<>>
    ELSE (IF is_string(Head(ingredients_raw))
          THEN <<parse_ingredient(Head(ingredients_raw).s)>> ELSE <<>>)
         \o parse_ingredients(Tail(ingredients_raw))

\* mutant of the check of lines 84-88: an empty list passes
ingredients_check_Never(ingredients) == None

\* lines 84-88: if ingredients.is_empty() { return Err(...) }
ingredients_check(ingredients) ==
    IF ingredients = <<>> THEN Some("no valid ingredients") ELSE None

\* lines 93-97: if instructions.is_empty() { return Err(...) }
instructions_check(instructions) ==
    IF instructions = <<>> THEN Some("missing instructions") ELSE None

\* lines 99-177: the optional fields and the ParsedRecipe; a duration that
\* panicked unwinds parse_recipe_json
recipe_built(json_, name, ingredients, instructions, prep_time, cook_time, total_time) ==
    IF prep_time.panic \/ cook_time.panic \/ total_time.panic
    THEN Panic("parse_iso8601_duration")
    ELSE Ok([name |-> decode_html_entities(name),
             description |-> IF GetStr(json_, <<"d","e","s","c","r","i","p","t","i","o","n">>).some
                             THEN decode_html_entities(GetStr(json_, <<"d","e","s","c","r","i","p","t","i","o","n">>).v)
                             ELSE <<>>,
             prep_time |-> prep_time.v,
             cook_time |-> cook_time.v,
             total_time |-> total_time.v,
             servings |-> parse_servings(json_),
             image_url |-> parse_image(json_),
             ingredients |-> ingredients,
             instructions |-> instructions,
             author |-> parse_author(json_),
             category |-> parse_first_string(json_, <<"r","e","c","i","p","e","C","a","t","e","g","o","r","y">>),
             cuisine |-> parse_first_string(json_, <<"r","e","c","i","p","e","C","u","i","s","i","n","e">>)])

\* lines 78-97: the ingredients are parsed (parse_unit may panic) and
\* checked, then the instructions
recipe_checked(json_, overflow_checks_, name, ingredients, instructions) ==
    IF \E i \in 1..Len(ingredients) : ingredients[i].panic
    THEN Panic("parse_unit")
    ELSE IF ingredients_check(ingredients).some
         THEN MalformedRecipe(ingredients_check(ingredients).v)
    ELSE IF instructions_check(instructions).some
         THEN MalformedRecipe(instructions_check(instructions).v)
    ELSE recipe_built(json_, name, ingredients, instructions,
                      parse_time(json_, <<"p","r","e","p","T","i","m","e">>, overflow_checks_),
                      parse_time(json_, <<"c","o","o","k","T","i","m","e">>, overflow_checks_),
                      parse_time(json_, <<"t","o","t","a","l","T","i","m","e">>, overflow_checks_))

\* parse_recipe_json: Ok(ParsedRecipe), Err(MalformedRecipe(reason)), or a
\* panic of one of the parsers it calls
parse_recipe_json(json_, overflow_checks_) ==
    IF ~GetStr(json_, <<"n","a","m","e">>).some THEN MalformedRecipe("missing name")
    ELSE IF ~GetArray(json_, <<"r","e","c","i","p","e","I","n","g","r","e","d","i","e","n","t">>).some
         THEN MalformedRecipe("missing ingredients")
    ELSE recipe_checked(json_, overflow_checks_, GetStr(json_, <<"n","a","m","e">>).v,
                        parse_ingredients(GetArray(json_, <<"r","e","c","i","p","e","I","n","g","r","e","d","i","e","n","t">>).v),
                        parse_instructions(json_))
(***************************************************************************)
(* parse_recipe_from_html (parser/mod.rs): extract the JSON-LD blocks,     *)
(* find the one Recipe object, map it to a ParsedRecipe.                   *)
(***************************************************************************)
MaxScripts == 2

\* the texts of the script elements: well-formed JSON-LD, then texts that
\* serde_json rejects
JsonTexts ==
    LET t_RecipeA == <<"{","\"","@","t","y","p","e","\"",":","\"","R","e","c","i","p","e","\"",",","\"","n","a","m","e","\"",":","\"","A","\"",",","\"","r","e","c","i","p","e","I","n","g","r","e","d","i","e","n","t","\"",":","[","\"","1"," ","c","u","p"," ","f","l","o","u","r","\"","]",",","\"","r","e","c","i","p","e","I","n","s","t","r","u","c","t","i","o","n","s","\"",":","[","\"","M","i","x","\"","]","}">>
        t_RecipeB == <<"{"," ","\"","@","t","y","p","e","\"",":"," ","[","\"","H","o","w","T","o","\"",","," ","\"","R","e","c","i","p","e","\"","]",","," ","\"","n","a","m","e","\"",":"," ","\"","B","\"",","," ","\"","r","e","c","i","p","e","I","n","g","r","e","d","i","e","n","t","\"",":"," ","[","\"","2"," ","e","g","g","s","\"","]",","," ","\"","r","e","c","i","p","e","I","n","s","t","r","u","c","t","i","o","n","s","\"",":"," ","\"","C","o","o","k","\""," ","}">>
        t_Article == <<"{","\"","@","t","y","p","e","\"",":","\"","A","r","t","i","c","l","e","\"",",","\"","n","a","m","e","\"",":","\"","N","\"","}">>
        t_NoName == <<"{","\"","@","t","y","p","e","\"",":","\"","R","e","c","i","p","e","\"",",","\"","r","e","c","i","p","e","I","n","g","r","e","d","i","e","n","t","\"",":","[","\"","1"," ","e","g","g","\"","]",",","\"","r","e","c","i","p","e","I","n","s","t","r","u","c","t","i","o","n","s","\"",":","[","\"","D","o","\"","]","}">>
    IN  {
        t_RecipeA,
        <<"\n">> \o t_RecipeB \o <<"\n">>,
        t_Article,
        t_NoName,
        <<"{","\"","@","c","o","n","t","e","x","t","\"",":","\"","h","t","t","p","s",":","/","/","s","c","h","e","m","a",".","o","r","g","\"",",","\"","@","g","r","a","p","h","\"",":","[","{","\"","@","t","y","p","e","\"",":","\"","W","e","b","P","a","g","e","\"","}",",">> \o t_RecipeA \o <<"]","}">>,
        <<"{","\"","@","g","r","a","p","h","\"",":","[">> \o t_RecipeA \o <<",">> \o t_RecipeB \o <<"]","}">>,
        <<"[">> \o t_Article \o <<",">> \o t_RecipeB \o <<"]">>,
        <<"[">> \o t_RecipeA \o <<",">> \o t_RecipeA \o <<"]">>,
        <<"{","\"","@","t","y","p","e","\"",":","\"","R","e","c","i","p","e","\"",",","\"","n","a","m","e","\"",":","\"","O","u","t","e","r","\"",",","\"","r","e","c","i","p","e","I","n","g","r","e","d","i","e","n","t","\"",":","[","\"","1"," ","e","g","g","\"","]",",","\"","r","e","c","i","p","e","I","n","s","t","r","u","c","t","i","o","n","s","\"",":","[","\"","D","o","\"","]",",","\"","@","g","r","a","p","h","\"",":","[">>
            \o t_RecipeA \o <<"]","}">>,
        <<"{","\"","@","t","y","p","e","\"",":","\"","W","e","b","P","a","g","e","\"",",","\"","m","a","i","n","E","n","t","i","t","y","\"",":">> \o t_RecipeA \o <<"}">>,
        <<"{","\"","@","g","r","a","p","h","\"",":","{","\"","@","t","y","p","e","\"",":","\"","R","e","c","i","p","e","\"",",","\"","n","a","m","e","\"",":","\"","G","\"","}","}">>,
        <<"{","\"","@","t","y","p","e","\"",":","\"","r","e","c","i","p","e","\"",",","\"","n","a","m","e","\"",":","\"","l","o","w","e","r","\"","}">>,
        <<"\"","R","e","c","i","p","e","\"">>,
        <<"[","]">>,
        \* not well-formed JSON
        <<"{","\"","@","t","y","p","e","\"",":","\"","R","e","c","i","p","e","\"",",","\"","n","a","m","e","\"",":","\"","A","\"",",","}">>,
        <<"{","\"","@","t","y","p","e","\"",":","\"","R","e","c","i","p","e","\"",",","\"","n","a","m","e","\"",":","\"","A","\"">>,
        <<>>,
        <<"{","'","@","t","y","p","e","'",":","'","R","e","c","i","p","e","'","}">>,
        t_RecipeA \o <<";">>,
        <<"<","!","-","-"," ">> \o t_RecipeA \o <<" ","-","-",">">> }

Element(tag, type, text) == [tag |-> tag, type |-> type, text |-> text]
Elements ==
    {Element("script", Some(<<"a","p","p","l","i","c","a","t","i","o","n","/","l","d","+","j","s","o","n">>), text) : text \in JsonTexts}
    \cup {Element("script", Some(<<"A","p","p","l","i","c","a","t","i","o","n","/","L","D","+","J","S","O","N">>), <<"{","\"","@","t","y","p","e","\"",":","\"","R","e","c","i","p","e","\"",",","\"","n","a","m","e","\"",":","\"","C","\"","}">>),
          Element("script", Some(<<"t","e","x","t","/","j","a","v","a","s","c","r","i","p","t">>), <<"{","\"","@","t","y","p","e","\"",":","\"","R","e","c","i","p","e","\"",",","\"","n","a","m","e","\"",":","\"","D","\"","}">>),
          Element("script", Some(<<"a","p","p","l","i","c","a","t","i","o","n","/","j","s","o","n">>), <<"{","\"","@","t","y","p","e","\"",":","\"","R","e","c","i","p","e","\"",",","\"","n","a","m","e","\"",":","\"","D","\"","}">>),
          Element("script", None, <<"{","\"","@","t","y","p","e","\"",":","\"","R","e","c","i","p","e","\"",",","\"","n","a","m","e","\"",":","\"","D","\"","}">>),
          Element("div", None, <<"R","e","c","i","p","e">>)}

RECURSIVE SeqsUpTo(_, _)
SeqsUpTo(S, n) ==
    IF n = 0 THEN {<<>>}
    ELSE SeqsUpTo(S, n - 1)
         \cup {Append(s, x) : s \in {q \in SeqsUpTo(S, n - 1) : Len(q) = n - 1}, x \in S}

\* let jsonld_blocks = extract_jsonld_blocks(html)?;
ExtractJsonLdBlocksReturns(r) ==
    IF r.tag = "Ok"
    THEN blocks' = r.v /\ pc' = "find_recipe_object" /\ UNCHANGED result
    ELSE result' = r /\ pc' = "done" /\ UNCHANGED blocks

ExtractJsonLdBlocks ==
    /\ pc = "extract_jsonld_blocks"
    /\ ExtractJsonLdBlocksReturns(extract_jsonld_blocks(html))
    /\ UNCHANGED <<fetch_vars, arg, calls, db, html, json, overflow_checks>>

\* let recipe_json = find_recipe_object(&jsonld_blocks)?;
FindRecipeObjectReturns(r) ==
    IF r.tag = "Ok"
    THEN json' = r.v /\ pc' = "parse_recipe_json" /\ UNCHANGED result
    ELSE result' = r /\ pc' = "done" /\ UNCHANGED json

FindRecipeObject ==
    /\ pc = "find_recipe_object"
    /\ FindRecipeObjectReturns(find_recipe_object(blocks))
    /\ UNCHANGED <<fetch_vars, arg, calls, db, html, blocks, overflow_checks>>

\* parse_recipe_json(&recipe_json)
ParseRecipeJson ==
    /\ pc = "parse_recipe_json"
    /\ result' = parse_recipe_json(json, overflow_checks)
    /\ pc' = "done"
    /\ UNCHANGED <<fetch_vars, arg, calls, db, parse_vars>>

InitLocate ==
    /\ pc = "extract_jsonld_blocks"
    /\ html \in SeqsUpTo(Elements, MaxScripts)
    /\ blocks = <<>>
    /\ json = JNull
    /\ overflow_checks \in BOOLEAN
    /\ result = NoResult
    /\ arg = <<>> /\ calls = <<>> /\ db = [unique_source_url |-> FALSE, recipes |-> {}]
    /\ url = <<>> /\ response = NoResponse /\ body = NoBody
    /\ net = [client_built |-> FALSE, requests_sent |-> 0, body_read |-> FALSE]

NextLocate == ExtractJsonLdBlocks \/ FindRecipeObject \/ ParseRecipeJson

SpecLocate == InitLocate /\ [][NextLocate]_vars
(***************************************************************************)
(* parse_recipe_json on its own: the Recipe objects it is given            *)
(***************************************************************************)
Field(key, value) == <<key, value>>
Object(fields) ==
    JObj([k \in {f[1] : f \in fields} |-> (CHOOSE f \in fields : f[1] = k)[2]])


\* the choices of the required fields; each is the set of fields it adds
\* to the object, none when the field is absent
RequiredOptions ==
    LET HowToStep(fields) == Object({Field(<<"@","t","y","p","e">>, JStr(<<"H","o","w","T","o","S","t","e","p">>))} \cup fields)
        HowToSection(fields) ==
            Object({Field(<<"@","t","y","p","e">>, JStr(<<"H","o","w","T","o","S","e","c","t","i","o","n">>))} \cup fields)
        NameOptions ==
            {{}} \cup {{Field(<<"n","a","m","e">>, v)} :
                v \in {JStr(<<"S","o","u","p">>), JStr(<<"T","o","m"," ","&","a","m","p",";"," ","J","e","r","r","y">>), JStr(<<>>), JInt(3), JNull}}
        IngredientOptions ==
            {{}} \cup {{Field(<<"r","e","c","i","p","e","I","n","g","r","e","d","i","e","n","t">>, v)} :
                v \in {JStr(<<"1"," ","c","u","p"," ","f","l","o","u","r">>),
                       JArr(<<>>),
                       JArr(<<JInt(1), JNull>>),
                       JArr(<<JStr(<<"1"," ","c","u","p"," ","f","l","o","u","r">>)>>),
                       JArr(<<JInt(1), JStr(<<"2"," ","e","g","g","s">>), JStr(<<"s","a","l","t">>)>>),
                       JArr(<<JStr(<<>>)>>),
                       JArr(<<JStr(<<"1"," ","&","#","8","4","9","0",";","g"," ","f","l","o","u","r">>)>>),
                       Object({Field(<<"n","a","m","e">>, JStr(<<"2"," ","e","g","g","s">>))})}}
        InstructionOptions ==
            {{}} \cup {{Field(<<"r","e","c","i","p","e","I","n","s","t","r","u","c","t","i","o","n","s">>, v)} :
                v \in {JStr(<<"M","i","x">>),
                       JStr(<<>>),
                       JInt(5),
                       JArr(<<>>),
                       JArr(<<JStr(<<"M","i","x">>), JStr(<<"B","a","k","e"," ","&","a","m","p",";"," ","e","a","t">>)>>),
                       JArr(<<HowToStep({Field(<<"t","e","x","t">>, JStr(<<"S","t","i","r">>))})>>),
                       JArr(<<HowToStep({Field(<<"n","a","m","e">>, JStr(<<"S","t","i","r">>))}), JInt(1)>>),
                       JArr(<<HowToSection({Field(<<"i","t","e","m","L","i","s","t","E","l","e","m","e","n","t">>,
                                 JArr(<<HowToStep({Field(<<"t","e","x","t">>, JStr(<<"C","h","o","p">>))}),
                                        JStr(<<"s","k","i","p","p","e","d">>),
                                        Object({Field(<<"t","e","x","t">>, JStr(<<"F","r","y">>))})>>))}),
                              JStr(<<"S","e","r","v","e">>)>>),
                       JArr(<<HowToSection({Field(<<"n","a","m","e">>, JStr(<<"P","r","e","p">>))})>>),
                       JArr(<<Object({Field(<<"@","t","y","p","e">>, JStr(<<"L","i","s","t","I","t","e","m">>)),
                                      Field(<<"t","e","x","t">>, JStr(<<"S","t","i","r">>))}),
                              Object({Field(<<"t","e","x","t">>, JStr(<<"S","t","i","r">>))})>>),
                       JArr(<<HowToStep({Field(<<"t","e","x","t">>, JStr(<<"H","e","a","t"," ","&","a","m","p",";"," ","s","t","i","r">>))}),
                              HowToSection({Field(<<"i","t","e","m","L","i","s","t","E","l","e","m","e","n","t">>,
                                 JArr(<<HowToStep({Field(<<"t","e","x","t">>, JStr(<<"C","h","o","p">>))}),
                                        HowToStep({Field(<<"t","e","x","t">>, JInt(2))}),
                                        HowToStep({Field(<<"t","e","x","t">>, JStr(<<"F","r","y">>))})>>))}),
                              JStr(<<"R","e","s","t">>),
                              Object({Field(<<"@","t","y","p","e">>, JStr(<<"L","i","s","t","I","t","e","m">>)),
                                      Field(<<"t","e","x","t">>, JStr(<<"W","a","i","t">>))}),
                              HowToStep({Field(<<"t","e","x","t">>, JNull)}),
                              HowToSection({Field(<<"i","t","e","m","L","i","s","t","E","l","e","m","e","n","t">>,
                                 JArr(<<HowToStep({Field(<<"t","e","x","t">>, JStr(<<"S","e","r","v","e">>))})>>))})>>),
                       HowToStep({Field(<<"t","e","x","t">>, JStr(<<"S","t","i","r">>))})}}
    IN  {n \cup i \cup s :
            n \in NameOptions, i \in IngredientOptions, s \in InstructionOptions}

\* the choices of one optional field
OptionalFields ==
    LET DurationValues ==
            {JStr(<<"P","T","1","5","M">>), JStr(<<"P","T","1","H","3","0","M">>), JStr(<<"P","1","D","T","2","H">>), JStr(<<"1","5"," ","m","i","n","u","t","e","s">>),
             JStr(<<"P","T","6","0","0","H">>), JStr(<<"P","T","5","4","0","H","6","0","0","M">>), JInt(15), JNull}
        YieldValues ==
            {JInt(6), JInt(0), JInt(0 - 2), JFloat(<<"4",".","5">>), JStr(<<"4"," ","s","e","r","v","i","n","g","s">>),
             JStr(<<"4","-","6">>), JStr(<<"s","e","r","v","e","s"," ","8">>), JStr(<<"a"," ","f","e","w">>), JStr(<<"0"," ","s","e","r","v","i","n","g","s">>),
             JStr(<<"9","9","9","9","9">>), JArr(<<JStr(<<"6"," ","s","e","r","v","i","n","g","s">>), JStr(<<"8">>)>>),
             JArr(<<JInt(6)>>), JArr(<<>>), JNull, Object({Field(<<"n","a","m","e">>, JStr(<<"6">>))})}
        ImageValues ==
            {JStr(<<"h","t","t","p","s",":","/","/","a","/","i",".","j","p","g">>), JStr(<<"h","t","t","p",":","/","/","a","/","i",".","j","p","g">>), JStr(<<"/","r","e","l",".","j","p","g">>),
             JStr(<<"f","t","p",":","/","/","a","/","i",".","j","p","g">>), JStr(<<"H","T","T","P","S",":","/","/","a","/","i",".","j","p","g">>), JStr(<<"h","t","t","p","s",":","/","/">>),
             JStr(<<"s","e","e"," ","h","t","t","p","s",":","/","/","a","/","i",".","j","p","g">>), JStr(<<>>),
             JArr(<<JStr(<<"/","r","e","l",".","j","p","g">>), JStr(<<"h","t","t","p","s",":","/","/","a","/","2",".","j","p","g">>), JStr(<<"h","t","t","p","s",":","/","/","a","/","3",".","j","p","g">>)>>),
             JArr(<<Object({Field(<<"u","r","l">>, JStr(<<"/","/","a","/","4",".","j","p","g">>))}),
                    Object({Field(<<"u","r","l">>, JStr(<<"h","t","t","p","s",":","/","/","a","/","5",".","j","p","g">>))}),
                    JStr(<<"h","t","t","p","s",":","/","/","a","/","6",".","j","p","g">>)>>),
             JArr(<<JInt(1), JStr(<<"d","a","t","a",":","i","m","a","g","e","/","p","n","g">>)>>),
             JArr(<<>>),
             Object({Field(<<"u","r","l">>, JStr(<<"h","t","t","p","s",":","/","/","a","/","o",".","j","p","g">>))}),
             Object({Field(<<"u","r","l">>, JStr(<<"o",".","j","p","g">>))}),
             Object({Field(<<"u","r","l">>, JInt(1))}),
             Object({Field(<<"n","a","m","e">>, JStr(<<"h","t","t","p","s",":","/","/","a","/","n",".","j","p","g">>))}),
             JInt(7)}
        AuthorValues ==
            {JStr(<<"J"," ","&","a","m","p",";"," ","B">>), Object({Field(<<"n","a","m","e">>, JStr(<<"A","n","n">>))}),
             Object({Field(<<"u","r","l">>, JStr(<<"h","t","t","p","s",":","/","/","a">>))}), JArr(<<JStr(<<"A","n","n">>)>>), JInt(1)}
        CategoryValues ==
            {JStr(<<"D","e","s","s","e","r","t">>), JStr(<<"S","w","e","e","t"," ","&","a","m","p",";"," ","s","o","u","r">>),
             JArr(<<JStr(<<"M","a","i","n">>), JStr(<<"S","i","d","e">>)>>), JArr(<<>>),
             JArr(<<JInt(1), JStr(<<"M","a","i","n">>)>>), JInt(2)}
    IN  {Field(<<"d","e","s","c","r","i","p","t","i","o","n">>, v) : v \in {JStr(<<"A"," ","&","l","t",";","b","&","g","t",";"," ","c">>), JInt(1), JNull}}
        \cup {Field(k, v) : k \in {<<"p","r","e","p","T","i","m","e">>, <<"c","o","o","k","T","i","m","e">>, <<"t","o","t","a","l","T","i","m","e">>},
                            v \in DurationValues}
        \cup {Field(<<"r","e","c","i","p","e","Y","i","e","l","d">>, v) : v \in YieldValues}
        \cup {Field(<<"i","m","a","g","e">>, v) : v \in ImageValues}
        \cup {Field(<<"a","u","t","h","o","r">>, v) : v \in AuthorValues}
        \cup {Field(k, v) : k \in {<<"r","e","c","i","p","e","C","a","t","e","g","o","r","y">>, <<"r","e","c","i","p","e","C","u","i","s","i","n","e">>},
                            v \in CategoryValues}

\* every choice of the required fields, alone and with an optional field
\* that matters after them; and valid required fields with one or two
\* optional fields
RecipeObjects ==
    LET ValidRequired ==
            {Field(<<"n","a","m","e">>, JStr(<<"S","o","u","p">>)),
             Field(<<"r","e","c","i","p","e","I","n","g","r","e","d","i","e","n","t">>, JArr(<<JStr(<<"1"," ","c","u","p"," ","f","l","o","u","r">>)>>)),
             Field(<<"r","e","c","i","p","e","I","n","s","t","r","u","c","t","i","o","n","s">>, JArr(<<JStr(<<"M","i","x">>)>>))}
        CrossedFields ==
            {{}, {Field(<<"p","r","e","p","T","i","m","e">>, JStr(<<"P","T","6","0","0","H">>))},
             {Field(<<"i","m","a","g","e">>, JStr(<<"/","r","e","l",".","j","p","g">>))}}
    IN  {Object({Field(<<"@","t","y","p","e">>, JStr(<<"R","e","c","i","p","e">>))} \cup r \cup o) :
            r \in RequiredOptions, o \in CrossedFields}
        \cup {Object({Field(<<"@","t","y","p","e">>, JStr(<<"R","e","c","i","p","e">>))} \cup ValidRequired \cup {p[1], p[2]}) :
                p \in {q \in OptionalFields \X OptionalFields :
                          q[1][1] # q[2][1] \/ q[1] = q[2]}}

InitMapper ==
    /\ pc = "parse_recipe_json"
    /\ json \in RecipeObjects
    /\ overflow_checks \in BOOLEAN
    /\ html = <<>>
    /\ blocks = <<>>
    /\ result = NoResult
    /\ arg = <<>> /\ calls = <<>> /\ db = [unique_source_url |-> FALSE, recipes |-> {}]
    /\ url = <<>> /\ response = NoResponse /\ body = NoBody
    /\ net = [client_built |-> FALSE, requests_sent |-> 0, body_read |-> FALSE]

NextMapper == ParseRecipeJson

SpecMapper == InitMapper /\ [][NextMapper]_vars
(***************************************************************************)
(* Properties of the StructuredDataLocator                                 *)
(***************************************************************************)
RECURSIVE SumOver(_, _)
SumOver(Count(_), items) ==
    IF items = <<>> THEN 0 ELSE Count(Head(items)) + SumOver(Count, Tail(items))

HasRecipeType(value) ==
    /\ value.t = "obj"
    /\ <<"@","t","y","p","e">> \in DOMAIN value.fields
    /\ LET ty == value.fields[<<"@","t","y","p","e">>]
       IN  \/ ty.t = "str" /\ ty.s = <<"R","e","c","i","p","e">>
           \/ ty.t = "arr" /\ \E i \in 1..Len(ty.items) :
                                 ty.items[i].t = "str" /\ ty.items[i].s = <<"R","e","c","i","p","e">>

\* the number of Recipe matches inside one JSON value
RECURSIVE RecipeMatches(_)
RecipeMatches(value) ==
    IF HasRecipeType(value) THEN 1
    ELSE IF value.t = "arr" THEN SumOver(RecipeMatches, value.items)
    ELSE IF value.t = "obj" /\ <<"@","g","r","a","p","h">> \in DOMAIN value.fields
            /\ value.fields[<<"@","g","r","a","p","h">>].t = "arr"
         THEN SumOver(RecipeMatches, value.fields[<<"@","g","r","a","p","h">>].items)
    ELSE 0

\* the one match of a value that has exactly one
RECURSIVE TheMatch(_)
TheMatch(value) ==
    IF HasRecipeType(value) THEN value
    ELSE LET items == IF value.t = "arr" THEN value.items
                      ELSE value.fields[<<"@","g","r","a","p","h">>].items
         IN  TheMatch(items[CHOOSE i \in 1..Len(items) : RecipeMatches(items[i]) = 1])

FindActed == pc \in {"parse_recipe_json", "done"} /\ blocks # <<>>
FindFailedWith(kind) == pc = "done" /\ result.tag = "Err" /\ result.kind = kind

\* C4: find_recipe_object counts the Recipe matches over all the blocks of
\* the document: with none it fails with NoRecipeFound, with exactly one it
\* returns that object, with two or more it fails with
\* MultipleRecipesFound, wherever the matches sit.
C4_OneRecipeOrError ==
    FindActed =>
        LET n == SumOver(RecipeMatches, blocks)
        IN  /\ n = 0 => FindFailedWith("NoRecipeFound")
            /\ n = 1 =>
                /\ ~FindFailedWith("NoRecipeFound")
                /\ ~FindFailedWith("MultipleRecipesFound")
                /\ json = TheMatch(JArr(blocks))
            /\ n >= 2 => FindFailedWith("MultipleRecipesFound")

\* two script blocks holding one Recipe each: MultipleRecipesFound
C4_Witness ==
    /\ FindFailedWith("MultipleRecipesFound")
    /\ Len(blocks) = 2
    /\ RecipeMatches(blocks[1]) = 1
    /\ RecipeMatches(blocks[2]) = 1

LdJsonScript(element) ==
    /\ element.tag = "script"
    /\ element.type.some
    /\ to_lowercase(element.type.v) = <<"a","p","p","l","i","c","a","t","i","o","n","/","l","d","+","j","s","o","n">>
WellFormed(element) == from_str(element.text).some
ParsedText(element) == from_str(element.text)
IsSome(opt) == opt.some
\* the parsed values of the well-formed scripts of a document, in order
ValuesOf(parsed) == [i \in 1..Len(parsed) |-> parsed[i].v]
ParsedScripts(scripts) ==
    ValuesOf(SelectSeq([i \in 1..Len(scripts) |-> ParsedText(scripts[i])], IsSome))
ExpectedBlocks(document) == ParsedScripts(SelectSeq(document, LdJsonScript))
BlocksAre(expected) ==
    /\ expected # <<>> => blocks = expected
    /\ expected = <<>> <=> (result.tag = "Err" /\ result.kind = "NoJsonLdFound")

\* C5: extract_jsonld_blocks keeps the parsed value of every script element
\* of type application/ld+json whose text is well-formed JSON, in document
\* order, silently skipping the others; it fails with NoJsonLdFound exactly
\* when no such element's text parses.
C5_WellFormedBlocksKept ==
    pc # "extract_jsonld_blocks" => BlocksAre(ExpectedBlocks(html))

\* a malformed block next to a well-formed one: the well-formed one is kept
C5_Witness ==
    /\ pc # "extract_jsonld_blocks"
    /\ Len(html) = 2
    /\ LdJsonScript(html[1]) /\ ~WellFormed(html[1])
    /\ LdJsonScript(html[2]) /\ WellFormed(html[2])
    /\ blocks = <<from_str(html[2].text).v>>

(***************************************************************************)
(* Properties of the RecipeMapper                                          *)
(***************************************************************************)
MapperReturned == pc = "done" /\ result.tag # "running"
Field_(key) == json.fields[key]
Has(key) == key \in DOMAIN json.fields
NameValid == Has(<<"n","a","m","e">>) /\ Field_(<<"n","a","m","e">>).t = "str"
IngredientsValid ==
    /\ Has(<<"r","e","c","i","p","e","I","n","g","r","e","d","i","e","n","t">>)
    /\ Field_(<<"r","e","c","i","p","e","I","n","g","r","e","d","i","e","n","t">>).t = "arr"
    /\ \E i \in 1..Len(Field_(<<"r","e","c","i","p","e","I","n","g","r","e","d","i","e","n","t">>).items) :
          Field_(<<"r","e","c","i","p","e","I","n","g","r","e","d","i","e","n","t">>).items[i].t = "str"
InstructionsValid == parse_instructions(json) # <<>>
OffendingFields ==
    (IF NameValid THEN {} ELSE {"name"})
    \cup (IF IngredientsValid THEN {} ELSE {"ingredients"})
    \cup (IF InstructionsValid THEN {} ELSE {"instructions"})
\* the required field a MalformedRecipe reason names
NamedField(reason) ==
    CASE reason = "missing name" -> "name"
      [] reason \in {"missing ingredients", "no valid ingredients"} -> "ingredients"
      [] reason = "missing instructions" -> "instructions"
      [] OTHER -> "none"
IsMalformedRecipe == result.tag = "Err" /\ result.kind = "MalformedRecipe"

\* C6: parse_recipe_json fails with MalformedRecipe whose reason names the
\* offending required field: name when name is absent or not a string,
\* ingredients when recipeIngredient is absent, not an array or holds no
\* string, instructions when the resolved instruction list is empty; a
\* block without recipeIngredient names ingredients whenever name and
\* instructions are valid.
C6_ReasonNamesOffendingField ==
    MapperReturned =>
        /\ OffendingFields # {} =>
              IsMalformedRecipe /\ NamedField(result.reason) \in OffendingFields
        /\ IsMalformedRecipe => OffendingFields # {}
        /\ (~Has(<<"r","e","c","i","p","e","I","n","g","r","e","d","i","e","n","t">>) /\ NameValid /\ InstructionsValid) =>
              IsMalformedRecipe /\ NamedField(result.reason) = "ingredients"

\* C7: every ParsedRecipe returned has a non-empty ingredients list and a
\* non-empty instructions list.
C7_RequiredListsNonEmpty ==
    (MapperReturned /\ result.tag = "Ok") =>
        result.v.ingredients # <<>> /\ result.v.instructions # <<>>

\* a recipe is returned for a recipeIngredient array that also holds
\* entries that are not strings
C7_Witness ==
    /\ MapperReturned /\ result.tag = "Ok"
    /\ \E i \in 1..Len(Field_(<<"r","e","c","i","p","e","I","n","g","r","e","d","i","e","n","t">>).items) :
          Field_(<<"r","e","c","i","p","e","I","n","g","r","e","d","i","e","n","t">>).items[i].t # "str"
    /\ Len(result.v.ingredients) = 2

AbsentOrNot(key, types) == ~Has(key) \/ ~(Field_(key).t \in types)

\* C8: when name is a string, recipeIngredient holds a string and the
\* instructions resolve to a non-empty list, parse_recipe_json succeeds
\* whatever the optional fields hold, and each absent or malformed optional
\* field takes its own default: the empty string, 0, 4 or absent.
C8_OptionalFieldsNeverFail ==
    (MapperReturned /\ NameValid /\ IngredientsValid /\ InstructionsValid) =>
        /\ result.tag = "Ok"
        /\ AbsentOrNot(<<"d","e","s","c","r","i","p","t","i","o","n">>, {"str"}) => result.v.description = <<>>
        /\ AbsentOrNot(<<"p","r","e","p","T","i","m","e">>, {"str"}) => result.v.prep_time = 0
        /\ AbsentOrNot(<<"c","o","o","k","T","i","m","e">>, {"str"}) => result.v.cook_time = 0
        /\ AbsentOrNot(<<"t","o","t","a","l","T","i","m","e">>, {"str"}) => result.v.total_time = 0
        /\ AbsentOrNot(<<"r","e","c","i","p","e","Y","i","e","l","d">>, {"str", "int", "arr"}) => result.v.servings = 4
        /\ AbsentOrNot(<<"i","m","a","g","e">>, {"str", "arr", "obj"}) => result.v.image_url = None
        /\ AbsentOrNot(<<"a","u","t","h","o","r">>, {"str", "obj"}) => result.v.author = None
        /\ AbsentOrNot(<<"r","e","c","i","p","e","C","a","t","e","g","o","r","y">>, {"str", "arr"}) => result.v.category = None
        /\ AbsentOrNot(<<"r","e","c","i","p","e","C","u","i","s","i","n","e">>, {"str", "arr"}) => result.v.cuisine = None

\* the first integer embedded in a text, none if it has no digit or the
\* digits do not fit
RECURSIVE EmbeddedInteger(_)
EmbeddedInteger(s) ==
    IF s = <<>> THEN None
    ELSE IF is_ascii_digit(Head(s)) THEN parse_i64(take_digits(s))
    ELSE EmbeddedInteger(Tail(s))
OrFour(opt) == IF opt.some THEN opt.v ELSE 4
ExpectedServings ==
    IF ~Has(<<"r","e","c","i","p","e","Y","i","e","l","d">>) THEN 4
    ELSE LET y == Field_(<<"r","e","c","i","p","e","Y","i","e","l","d">>)
         IN  IF y.t = "int" THEN y.n
             ELSE IF y.t = "str" THEN OrFour(EmbeddedInteger(y.s))
             ELSE IF y.t = "arr" /\ y.items # <<>> /\ y.items[1].t = "str"
                  THEN OrFour(EmbeddedInteger(y.items[1].s))
             ELSE 4

\* C9: in every ParsedRecipe servings is an integer >= 1: the bare integer
\* of recipeYield, or the first integer embedded in its string or in the
\* first string of its array, and 4 when it is absent or unparsable.
C9_ServingsAtLeastOne ==
    (MapperReturned /\ result.tag = "Ok") =>
        /\ result.v.servings = ExpectedServings
        /\ result.v.servings >= 1

HasHttpPrefix(u) ==
    \/ Len(u) >= 7 /\ SubSeq(u, 1, 7) = <<"h","t","t","p",":","/","/">>
    \/ Len(u) >= 8 /\ SubSeq(u, 1, 8) = <<"h","t","t","p","s",":","/","/">>
IsAbsoluteHttpUrl(u) ==
    UrlParse(u).ok /\ UrlParse(u).scheme \in {<<"h","t","t","p">>, <<"h","t","t","p","s">>}
\* the text an entry of an image array offers: itself or its url field
EntryUrl(item) ==
    IF item.t = "str" THEN Some(item.s)
    ELSE IF item.t = "obj" /\ <<"u","r","l">> \in DOMAIN item.fields /\ item.fields[<<"u","r","l">>].t = "str"
         THEN Some(item.fields[<<"u","r","l">>].s)
    ELSE None
Passing(items) ==
    {i \in 1..Len(items) : EntryUrl(items[i]).some /\ HasHttpPrefix(EntryUrl(items[i]).v)}
Least(S) == CHOOSE i \in S : \A j \in S : i <= j
ExpectedImage ==
    IF ~Has(<<"i","m","a","g","e">>) THEN None
    ELSE LET img == Field_(<<"i","m","a","g","e">>)
         IN  IF img.t = "str"
             THEN IF HasHttpPrefix(img.s) THEN Some(img.s) ELSE None
             ELSE IF img.t = "arr"
                  THEN IF Passing(img.items) = {} THEN None
                       ELSE EntryUrl(img.items[Least(Passing(img.items))])
             ELSE IF EntryUrl(img).some /\ img.t = "obj" /\ HasHttpPrefix(EntryUrl(img).v)
                  THEN EntryUrl(img)
             ELSE None

RECURSIVE RecipeBelow(_)
RecipeBelow(value) ==
    \/ value.t = "arr" /\ \E i \in 1..Len(value.items) :
           HasRecipeType(value.items[i]) \/ RecipeBelow(value.items[i])
    \/ value.t = "obj" /\ \E key \in DOMAIN value.fields :
           HasRecipeType(value.fields[key]) \/ RecipeBelow(value.fields[key])

\* an object that is no Recipe and has no @graph array
Closed(value) ==
    /\ value.t = "obj"
    /\ ~HasRecipeType(value)
    /\ ~(<<"@","g","r","a","p","h">> \in DOMAIN value.fields /\ value.fields[<<"@","g","r","a","p","h">>].t = "arr")

FoundOne(value) ==
    /\ ~FindFailedWith("NoRecipeFound")
    /\ ~FindFailedWith("MultipleRecipesFound")
    /\ json = value

\* C21: a Recipe-typed object is one match whatever it contains, and the
\* search enters only arrays and the @graph array of an object that is not a
\* Recipe: a single Recipe block is found as it is, two Recipe blocks are
\* MultipleRecipesFound, and blocks that are neither Recipe, array nor
\* object with a @graph array give NoRecipeFound whatever they contain.
C21_FirstMatchPerBranch ==
    FindActed =>
        /\ (\A i \in 1..Len(blocks) : HasRecipeType(blocks[i]))
           => IF Len(blocks) = 1 THEN FoundOne(blocks[1])
              ELSE FindFailedWith("MultipleRecipesFound")
        /\ (\A i \in 1..Len(blocks) : Closed(blocks[i]) \/ blocks[i].t \notin {"obj", "arr"})
           => FindFailedWith("NoRecipeFound")

\* a Recipe that holds another Recipe in its @graph is the one match
C21_Witness ==
    /\ FindActed
    /\ Len(blocks) = 1
    /\ HasRecipeType(blocks[1])
    /\ RecipeBelow(blocks[1])
    /\ FoundOne(blocks[1])
(***************************************************************************)
(* RecipeMapper: instructions and text fields                              *)
(***************************************************************************)
\* value is an object whose key holds a string
HasText(value, key) ==
    value.t = "obj" /\ key \in DOMAIN value.fields /\ value.fields[key].t = "str"

\* value is an object tagged with type_name
Tagged(value, type_name) ==
    HasText(value, <<"@","t","y","p","e">>) /\ value.fields[<<"@","t","y","p","e">>].s = type_name

\* the source texts of the elements of items that hold a string text
TextsOf(items) ==
    LET with_text == SelectSeq(items, LAMBDA it : HasText(it, <<"t","e","x","t">>))
    IN  [i \in 1..Len(with_text) |-> with_text[i].fields[<<"t","e","x","t">>].s]

\* the source texts one element of recipeInstructions stands for
StepTexts(item) ==
    IF item.t = "str" THEN <<item.s>>
    ELSE IF Tagged(item, <<"H","o","w","T","o","S","t","e","p">>) THEN TextsOf(<<item>>)
    ELSE IF Tagged(item, <<"H","o","w","T","o","S","e","c","t","i","o","n">>)
              /\ <<"i","t","e","m","L","i","s","t","E","l","e","m","e","n","t">> \in DOMAIN item.fields
              /\ item.fields[<<"i","t","e","m","L","i","s","t","E","l","e","m","e","n","t">>].t = "arr"
         THEN TextsOf(item.fields[<<"i","t","e","m","L","i","s","t","E","l","e","m","e","n","t">>].items)
    ELSE <<>>

\* the texts of the first n elements of items, in their order
RECURSIVE TextsUpTo(_, _)
TextsUpTo(items, n) ==
    IF n = 0 THEN <<>> ELSE TextsUpTo(items, n - 1) \o StepTexts(items[n])

\* the source texts of the recipeInstructions of the object
InstructionTexts ==
    IF ~Has(<<"r","e","c","i","p","e","I","n","s","t","r","u","c","t","i","o","n","s">>) THEN <<>>
    ELSE IF Field_(<<"r","e","c","i","p","e","I","n","s","t","r","u","c","t","i","o","n","s">>).t = "str" THEN <<Field_(<<"r","e","c","i","p","e","I","n","s","t","r","u","c","t","i","o","n","s">>).s>>
    ELSE IF Field_(<<"r","e","c","i","p","e","I","n","s","t","r","u","c","t","i","o","n","s">>).t = "arr"
         THEN TextsUpTo(Field_(<<"r","e","c","i","p","e","I","n","s","t","r","u","c","t","i","o","n","s">>).items,
                        Len(Field_(<<"r","e","c","i","p","e","I","n","s","t","r","u","c","t","i","o","n","s">>).items))
    ELSE <<>>

\* C27: the instructions of a parsed recipe are the entity-decoded texts of
\* recipeInstructions in source order: the one string, or of an array each
\* plain string, each HowToStep's text and each text of a HowToSection's
\* itemListElement; other elements contribute nothing.
C27_InstructionsInOrder ==
    (MapperReturned /\ result.tag = "Ok")
    => result.v.instructions =
           [i \in 1..Len(InstructionTexts) |-> decode_html_entities(InstructionTexts[i])]

C27_Witness ==
    /\ MapperReturned
    /\ result.tag = "Ok"
    /\ Has(<<"r","e","c","i","p","e","I","n","s","t","r","u","c","t","i","o","n","s">>)
    /\ Field_(<<"r","e","c","i","p","e","I","n","s","t","r","u","c","t","i","o","n","s">>).t = "arr"
    /\ Len(Field_(<<"r","e","c","i","p","e","I","n","s","t","r","u","c","t","i","o","n","s">>).items) = 6
    /\ result.v.instructions =
           <<<<"H","e","a","t"," ","&"," ","s","t","i","r">>, <<"C","h","o","p">>, <<"F","r","y">>, <<"R","e","s","t">>, <<"S","e","r","v","e">>>>

\* the optional text field of the result is the entity-decoded string that
\* key holds
DecodedCopy(key, field) ==
    HasText(json, key) => field = Some(decode_html_entities(Field_(key).s))

\* C28: every text field of a parsed recipe is entity-decoded: author,
\* category and cuisine equal the decoded source strings, as name and
\* description do.
C28_TextFieldsDecoded ==
    (MapperReturned /\ result.tag = "Ok")
    => /\ result.v.name = decode_html_entities(Field_(<<"n","a","m","e">>).s)
       /\ (HasText(json, <<"d","e","s","c","r","i","p","t","i","o","n">>)
           => result.v.description = decode_html_entities(Field_(<<"d","e","s","c","r","i","p","t","i","o","n">>).s))
       /\ DecodedCopy(<<"a","u","t","h","o","r">>, result.v.author)
       /\ DecodedCopy(<<"r","e","c","i","p","e","C","a","t","e","g","o","r","y">>, result.v.category)
       /\ DecodedCopy(<<"r","e","c","i","p","e","C","u","i","s","i","n","e">>, result.v.cuisine)

(***************************************************************************)
(* The utility functions called on their own: parse_iso8601_duration,      *)
(* parse_ingredient, aggregate_quantities, normalize_unit.  Each behaviour  *)
(* is one call: the argument is chosen in the initial state and the action *)
(* is the call.                                                            *)
(***************************************************************************)

\* parse_iso8601_duration(duration)
ParseIso8601Duration ==
    /\ pc = "parse_iso8601_duration"
    /\ result' = parse_iso8601_duration(arg.duration, overflow_checks)
    /\ pc' = "done"
    /\ UNCHANGED <<fetch_vars, parse_vars, arg, calls, db>>

\* parse_ingredient(input)
ParseIngredient ==
    /\ pc = "parse_ingredient"
    /\ result' = parse_ingredient(arg.input)
    /\ pc' = "done"
    /\ UNCHANGED <<fetch_vars, parse_vars, arg, calls, db>>

\* aggregate_quantities(items)
AggregateQuantities ==
    /\ pc = "aggregate_quantities"
    /\ \E results \in aggregate_quantities(arg.items) : result' = [entries |-> results]
    /\ pc' = "done"
    /\ UNCHANGED <<fetch_vars, parse_vars, arg, calls, db>>

\* normalize_unit(unit)
NormalizeUnit ==
    /\ pc = "normalize_unit"
    /\ result' = [normalized |-> normalize_unit(arg.unit)]
    /\ pc' = "done"
    /\ UNCHANGED <<fetch_vars, parse_vars, arg, calls, db>>

\* the longest list of items that is tried with every combination of FewItems
MaxItems == 3

InitUtil ==
    LET Counts == {<<>>, <<"0">>, <<"1">>, <<"2">>, <<"5">>, <<"1","5">>, <<"3","0">>, <<"4","5">>, <<"0","0","7">>, <<"1","2","0">>,
                   <<"5","4","6">>, <<"5","4","7">>, <<"6","0","0">>, <<"3","2","7","6","7">>, <<"9","9","9","9","9">>}
        Seconds == {<<>>, <<"3","0","S">>, <<"4","5","S">>}
        Durations ==
            {<<"P","T">> \o h \o <<"H">> \o m \o <<"M">> \o s : h \in Counts, m \in Counts, s \in Seconds}
            \cup {<<"P","T">> \o m \o <<"M">> \o s : m \in Counts, s \in Seconds}
            \cup {<<"P","T">> \o h \o <<"H">> \o s : h \in Counts, s \in Seconds}
            \cup {<<>>, <<"i","n","v","a","l","i","d">>, <<"3","0">>, <<"T","3","0","M">>, <<"p","t","3","0","m">>, <<" ","P","T","3","0","M">>, <<"1","H","3","0","M">>,
                  <<"P">>, <<"P","T">>, <<"P","1","D","T","2","H">>, <<"P","1","M">>, <<"P","T","1",".","5","H">>, <<"P","T","-","5","M">>, <<"P","T","H">>,
                  <<"P","2","W">>, <<"P","3","D">>, <<"P","1","Y">>, <<"P","1","M","T","2","H">>, <<"P","1","Y","2","M","3","D","T","4","H","5","M">>, <<"P","1","D","T","2","H","3","0","M","1","5","S">>,
                  <<"P","1","D">>, <<"P","1","0","D","T","3","0","M">>}
        Quantities == {<<"2">>, <<"0">>, <<"1","0">>, <<"1",".","5">>, <<"0",".","2","5">>, <<"1","/","2">>, <<"3","/","4">>, <<"4","/","2">>,
                       <<"1"," ","1","/","2">>, <<"2"," ","3","/","4">>}
        UnitTexts == {Units[i] : i \in 1..Len(Units)} \cup {<<"C","u","p","s">>, <<"T","B","S","P">>, <<"K","g">>, <<"F","l"," ","O","z">>}
        Names == {<<"s","u","g","a","r">>, <<"a","l","l","-","p","u","r","p","o","s","e"," ","f","l","o","u","r">>, <<" ","b","r","o","w","n"," ","s","u","g","a","r"," "," ">>, <<"2","%"," ","m","i","l","k">>,
                  <<"s","a","l","t"," ","&","a","m","p",";"," ","p","e","p","p","e","r">>}
        Lines ==
            {q \o <<" ">> \o u \o w \o n :
                q \in Quantities, u \in UnitTexts, w \in {<<" ">>, <<"\t">>}, n \in Names}
            \cup {<<"s","a","l","t"," ","t","o"," ","t","a","s","t","e">>, <<"2"," ","e","g","g","s">>, <<"1"," ","(","1","5"," ","o","z",")"," ","c","a","n"," ","b","e","a","n","s">>, <<"3","-","4"," ","c","l","o","v","e","s"," ","g","a","r","l","i","c">>,
                  <<"-","5"," ","e","g","g","s">>, <<"-","1","/","2"," ","c","u","p"," ","m","i","l","k">>, <<"-","1"," ","1","/","2"," ","c","u","p","s"," ","s","u","g","a","r">>, <<"-"," ","5"," ","e","g","g","s">>, <<"-">>,
                  <<"/","2"," ","c","u","p","s"," ","f","l","o","u","r">>, <<"/">>, <<".","5"," ","c","u","p"," ","o","i","l">>, <<".">>, <<"1","/","0"," ","c","u","p"," ","w","a","t","e","r">>,
                  <<"1","/","-","2"," ","c","u","p","s"," ","w","a","t","e","r">>, <<"-","-","3"," ","e","g","g","s">>, <<"-",".","5"," ","t","s","p"," ","s","a","l","t">>, <<"1"," "," ","1","/","2"," ","c","u","p","s"," ","s","u","g","a","r">>,
                  <<" "," ","2"," ","c","u","p","s"," ","f","l","o","u","r"," "," ">>, <<"2"," ","c","a","r","r","o","t","s">>, <<"1"," ","c","a","n","n","e","d"," ","t","o","m","a","t","o">>, <<"2"," ","c","u","p","s",","," ","s","i","f","t","e","d">>,
                  <<"1"," ","&","#","8","4","9","0",";","g"," ","f","l","o","u","r">>, <<"&","n","b","s","p",";","2"," ","c","u","p","s"," ","f","l","o","u","r">>, <<>>,
                  <<"-"," ","s","a","l","t"," ","t","o"," ","t","a","s","t","e">>, <<"c","u","p"," ","o","f"," ","s","u","g","a","r">>, <<"p","i","n","c","h"," ","s","a","l","t">>, <<"S","a","l","t">>,
                  <<"(","o","p","t","i","o","n","a","l",")"," ","2"," ","s","p","r","i","g","s"," ","t","h","y","m","e">>, <<"a"," ","3","-","4"," ","l","b"," ","c","h","i","c","k","e","n">>, <<"e","g","g","s",","," ","2">>,
                  <<"3","-","4"," ","c","l","o","v","e","s"," ","g","a","r","l","i","c">>, <<"1","-","2"," ","t","b","s","p"," ","o","i","l">>, <<"2","-","3">>, <<"1","/","2","-","3","/","4"," ","c","u","p"," ","m","i","l","k">>,
                  <<"1"," ","-"," ","2"," ","c","u","p","s"," ","r","i","c","e">>, <<"1","0","-","1","2"," ","l","a","r","g","e"," ","s","h","r","i","m","p">>, <<"1",".","5","-","2"," ","l","b"," ","b","e","e","f">>,
                  <<"2"," ","c","a","n","n","e","d"," ","t","o","m","a","t","o","e","s">>, <<"2"," ","c"," ","s","u","g","a","r">>, <<"3"," ","c","l","o","v","e","s",","," ","m","i","n","c","e","d">>, <<"1"," ","c","u","p","c","a","k","e"," ","l","i","n","e","r">>,
                  <<"2"," ","C","a","n","s"," ","b","e","a","n","s">>, <<"1"," ","l","b">>, <<"2"," ","l","a","r","g","e"," ","e","g","g","s">>, <<"1"," ","g","a","l","l","o","n","s">>, <<"4"," ","o","z","s"," ","c","h","e","e","s","e">>,
                  <<"1"," ","(","1","5"," ","o","z",")"," ","c","a","n"," ","b","e","a","n","s">>, <<"2"," ","(","8"," ","o","z",")"," ","p","a","c","k","a","g","e","s"," ","c","r","e","a","m"," ","c","h","e","e","s","e">>,
                  <<"1"," ","(","a","b","o","u","t"," ","2"," ","c","u","p","s",")"," ","o","n","i","o","n">>, <<"1"," ","(","l","a","r","g","e",")"," ","e","g","g">>, <<"1"," ","(","1","5"," ","o","z"," ","c","a","n"," ","b","e","a","n","s">>,
                  <<"1"," ","(","a",")"," ","(","b",")"," ","c","u","p"," ","m","i","l","k">>, <<"(","1","5"," ","o","z",")"," ","c","a","n"," ","b","e","a","n","s">>, <<"1"," ","(",")"," ","c","u","p"," ","m","i","l","k">>,
                  <<"1"," ","(","1","5"," ","o","z",")","c","a","n"," ","b","e","a","n","s">>, <<"1"," ","(","1","4"," ","o","z",")"," ","c","a","n","n","e","d"," ","t","o","m","a","t","o","e","s">>, <<"1"," ","1","/","2","-","2"," ","c","u","p","s"," ","f","l","o","u","r">>, <<"-","3","-","4"," ","c","u","p","s"," ","r","i","c","e">>,
                  <<"-","2"," ","t","b","s","p"," ","o","i","l">>, <<"2","-">>, <<"3","-"," ","4"," ","c","l","o","v","e","s"," ","g","a","r","l","i","c">>,
                  <<"1"," ","&","#","8","4","9","0",";","i","l","o","g","r","a","m","s"," ","f","l","o","u","r">>, <<"1"," ","p","a","c","&","#","8","4","9","0",";","a","g","e"," ","y","e","a","s","t">>, <<"1"," ","c","u","p"," ","(","8"," ","o","z",")"," ","m","i","l","k">>}
        Item(n, d, unit) == [quantity |-> Rat(n, d), unit |-> unit]
        UnitStrings ==
            {<<"c","u","p">>, <<"c","u","p","s">>, <<"c">>, <<"t","a","b","l","e","s","p","o","o","n">>, <<"t","a","b","l","e","s","p","o","o","n","s">>, <<"t","b","s","p">>, <<"t","b","s">>,
             <<"t","e","a","s","p","o","o","n">>, <<"t","e","a","s","p","o","o","n","s">>, <<"t","s","p">>, <<"m","l">>, <<"m","i","l","l","i","l","i","t","e","r">>, <<"m","i","l","l","i","l","i","t","e","r","s">>,
             <<"l">>, <<"l","i","t","e","r">>, <<"l","i","t","e","r","s">>, <<"f","l"," ","o","z">>, <<"f","l","u","i","d"," ","o","u","n","c","e">>, <<"f","l","u","i","d"," ","o","u","n","c","e","s">>,
             <<"p","i","n","t">>, <<"p","i","n","t","s">>, <<"p","t">>, <<"q","u","a","r","t">>, <<"q","u","a","r","t","s">>, <<"q","t">>,
             <<"g","a","l","l","o","n">>, <<"g","a","l","l","o","n","s">>, <<"g","a","l">>,
             <<"g">>, <<"g","r","a","m">>, <<"g","r","a","m","s">>, <<"k","g">>, <<"k","i","l","o","g","r","a","m">>, <<"k","i","l","o","g","r","a","m","s">>,
             <<"o","z">>, <<"o","u","n","c","e">>, <<"o","u","n","c","e","s">>, <<"l","b">>, <<"l","b","s">>, <<"p","o","u","n","d">>, <<"p","o","u","n","d","s">>,
             <<>>, <<"w","h","o","l","e">>, <<"p","i","e","c","e">>, <<"p","i","e","c","e","s">>, <<"c","l","o","v","e">>, <<"c","l","o","v","e","s">>, <<"s","l","i","c","e">>,
             <<"s","l","i","c","e","s">>, <<"c","a","n">>, <<"c","a","n","s">>, <<"b","u","n","c","h">>, <<"b","u","n","c","h","e","s">>, <<"h","e","a","d">>, <<"h","e","a","d","s">>,
             <<"s","t","a","l","k">>, <<"s","t","a","l","k","s">>, <<"s","p","r","i","g">>, <<"s","p","r","i","g","s">>,
             <<"p","i","n","c","h">>, <<"P","i","n","c","h">>, <<"d","a","s","h">>, <<"l","a","r","g","e">>, <<"L">>, <<"C","U","P","S">>, <<"T","b","s","p">>, <<"L","i","t","e","r","s">>,
             <<"K","g">>, <<"P","i","e","c","e","s">>, <<"f","l","."," ","o","z">>}
        SomeItems ==
            {Item(n, 1, u) : n \in {1, 2},
                u \in {<<"c","u","p">>, <<"c","u","p","s">>, <<"t","b","s","p">>, <<"t","a","b","l","e","s","p","o","o","n">>, <<"l","i","t","e","r">>, <<"l","i","t","e","r","s">>, <<"L">>,
                       <<"l","b">>, <<"o","z">>, <<"o","u","n","c","e","s">>, <<"c","l","o","v","e">>, <<"c","l","o","v","e","s">>, <<"p","i","e","c","e">>, <<>>,
                       <<"p","i","n","c","h">>}}
        FewItems == {Item(1, 1, <<"c","u","p">>), Item(2, 1, <<"t","b","s","p">>), Item(2, 1, <<"l","b">>),
                     Item(1, 1, <<"l","i","t","e","r">>), Item(3, 1, <<"c","l","o","v","e","s">>), Item(1, 2, <<"p","i","n","c","h">>)}
        ItemLists ==
            {<<Item(q[1], q[2], u)>> : q \in {<<1, 1>>, <<3, 2>>, <<0, 1>>}, u \in UnitStrings}
            \cup {<<a, b>> : a \in SomeItems, b \in SomeItems}
            \cup SeqsUpTo(FewItems, MaxItems)
            \cup {<<Item(3, 1, <<"t","s","p">>), Item(1, 4, <<"t","s","p">>)>>,
                  <<Item(1, 2, <<"C","u","p">>), Item(1, 4, <<"c">>), Item(1, 4, <<"c","u","p","s">>)>>}
    IN  /\ \/ /\ pc = "parse_iso8601_duration"
              /\ arg \in {[duration |-> d] : d \in Durations}
              /\ overflow_checks \in BOOLEAN
           \/ /\ pc = "parse_ingredient"
              /\ arg \in {[input |-> l] : l \in Lines}
              /\ overflow_checks = FALSE
           \/ /\ pc = "aggregate_quantities"
              /\ arg \in {[items |-> l] : l \in ItemLists}
              /\ overflow_checks = FALSE
           \/ /\ pc = "normalize_unit"
              /\ arg \in {[unit |-> u] : u \in UnitStrings}
              /\ overflow_checks = FALSE
        /\ html = <<>> /\ blocks = <<>> /\ json = JNull
        /\ result = NoResult
        /\ calls = <<>> /\ db = [unique_source_url |-> FALSE, recipes |-> {}]
        /\ url = <<>> /\ response = NoResponse /\ body = NoBody
        /\ net = [client_built |-> FALSE, requests_sent |-> 0, body_read |-> FALSE]

NextUtil ==
    ParseIso8601Duration \/ ParseIngredient \/ AggregateQuantities \/ NormalizeUnit

SpecUtil == InitUtil /\ [][NextUtil]_vars

(***************************************************************************)
(* DurationParser                                                          *)
(***************************************************************************)
\* the number a run of decimal digits denotes
RECURSIVE DecimalValue(_, _)
DecimalValue(ds, acc) ==
    IF ds = <<>> THEN acc ELSE DecimalValue(Tail(ds), 10 * acc + DigitValue(Head(ds)))

IsDigits(s) == s # <<>> /\ \A i \in 1..Len(s) : is_ascii_digit(s[i])

\* the ways to read text as  h "H" m "M",  h "H"  or  m "M": the pairs
\* <<h, m>> of its hour and minute counts
HoursMinutes(text) ==
    {<<DecimalValue(SubSeq(text, 1, i - 1), 0), DecimalValue(SubSeq(text, i + 1, Len(text) - 1), 0)>> :
        i \in {j \in 1..(Len(text) - 1) :
                 /\ text[j] = "H" /\ text[Len(text)] = "M"
                 /\ IsDigits(SubSeq(text, 1, j - 1))
                 /\ IsDigits(SubSeq(text, j + 1, Len(text) - 1))}}
    \cup (IF text # <<>> /\ text[Len(text)] = "H" /\ IsDigits(Take(text, Len(text) - 1))
          THEN {<<DecimalValue(Take(text, Len(text) - 1), 0), 0>>} ELSE {})
    \cup (IF text # <<>> /\ text[Len(text)] = "M" /\ IsDigits(Take(text, Len(text) - 1))
          THEN {<<0, DecimalValue(Take(text, Len(text) - 1), 0)>>} ELSE {})

\* text without a trailing seconds component {s}S
WithoutSeconds(text) ==
    IF text # <<>> /\ text[Len(text)] = "S"
    THEN LET cut == CHOOSE k \in 0..(Len(text) - 1) :
                        /\ \A i \in (k + 1)..(Len(text) - 1) : is_ascii_digit(text[i])
                        /\ (k = 0 \/ ~is_ascii_digit(text[k]))
         IN  Take(text, cut)
    ELSE text

DurationReturned == pc = "done" /\ "duration" \in DOMAIN arg

\* C11: parse_iso8601_duration gives h*60+m for PT{h}H{m}M (m for PT{m}M,
\* h*60 for PT{h}H), with or without a trailing seconds component, and 0 for
\* every string that does not begin with P.
C11_DurationMinutes ==
    DurationReturned
    => /\ (~starts_with(arg.duration, <<"P">>) => result = Minutes(0))
       /\ (starts_with(arg.duration, <<"P","T">>)
           => \A hm \in HoursMinutes(WithoutSeconds(Drop(arg.duration, 2))) :
                  result = Minutes(hm[1] * 60 + hm[2]))

\* C12: parse_iso8601_duration is total: every call returns a count of
\* minutes that is at least 0, and none panics.
C12_DurationTotal ==
    DurationReturned => (~result.panic /\ result.v >= 0)

(***************************************************************************)
(* IngredientLineParser                                                    *)
(***************************************************************************)
IngredientReturned == pc = "done" /\ "input" \in DOMAIN arg

\* quantity texts with their values n/d: integers, decimals, simple
\* fractions and mixed numbers
QuantityTexts ==
    {<<<<"2">>, 2, 1>>, <<<<"0">>, 0, 1>>, <<<<"1","0">>, 10, 1>>, <<<<"1",".","5">>, 3, 2>>, <<<<"0",".","2","5">>, 1, 4>>,
     <<<<"1","/","2">>, 1, 2>>, <<<<"3","/","4">>, 3, 4>>, <<<<"4","/","2">>, 2, 1>>, <<<<"1"," ","1","/","2">>, 3, 2>>,
     <<<<"2"," ","3","/","4">>, 11, 4>>}

\* text is a vocabulary term as written, in any ASCII letter case
WritesUnit(text, unit) ==
    /\ \A j \in 1..Len(text) : text[j] \in LowerLetters \cup UpperLetters \cup {" "}
    /\ to_lowercase(text) = unit

\* line reads  q " " unit whitespace name  with the unit text ending at
\* position unit_end
HasIngredientForm(line, q, unit, unit_end) ==
    /\ starts_with(line, q \o <<" ">>)
    /\ unit_end = Len(q) + 1 + Len(unit)
    /\ Len(line) > unit_end
    /\ WritesUnit(SubSeq(line, Len(q) + 2, unit_end), unit)
    /\ is_whitespace(line[unit_end + 1])

IngredientIs(line, q, unit_end, parsed) ==
    /\ ~parsed.panic
    /\ parsed.quantity = Rat(q[2], q[3])
    /\ parsed.unit = SubSeq(line, Len(q[1]) + 2, unit_end)
    /\ parsed.name = trim(Drop(line, unit_end))

FormsHold(line, parsed) ==
    \A q \in QuantityTexts : \A i \in 1..Len(Units) :
        HasIngredientForm(line, q[1], Units[i], Len(q[1]) + 1 + Len(Units[i]))
        => IngredientIs(line, q, Len(q[1]) + 1 + Len(Units[i]), parsed)

\* C13: on a line (entity-decoded and trimmed)  {q} {unit} {name}, with q an
\* integer, decimal, fraction or mixed number and unit a vocabulary term
\* followed by whitespace, parse_ingredient returns the value of q, the unit
\* text as written and the trimmed name.
C13_QuantityUnitName ==
    IngredientReturned => FormsHold(trim(decode_html_entities(arg.input)), result)

C13_Witness ==
    /\ IngredientReturned
    /\ arg.input = <<"1"," ","1","/","2"," ","c","u","p","s"," ","s","u","g","a","r">>
    /\ result = [panic |-> FALSE, quantity |-> Rat(3, 2), unit |-> <<"c","u","p","s">>, name |-> <<"s","u","g","a","r">>]
    /\ HasIngredientForm(arg.input, <<"1"," ","1","/","2">>, <<"c","u","p","s">>, 10)

\* C14: the quantity of every ParsedIngredient is at least 0.
C14_QuantityNonNegative ==
    (IngredientReturned /\ ~result.panic) => result.quantity.n >= 0

(***************************************************************************)
(* QuantityAggregator                                                      *)
(***************************************************************************)
AggregateReturned == pc = "done" /\ "items" \in DOMAIN arg

\* C15: aggregate_quantities on a single pair returns exactly one entry, with
\* the input quantity, normalize_unit of the input unit and is_converted
\* false.
C15_SinglePairRoundTrip ==
    (AggregateReturned /\ Len(arg.items) = 1)
    => result.entries = <<[quantity |-> arg.items[1].quantity,
                           unit |-> normalize_unit(arg.items[1].unit),
                           is_converted |-> FALSE]>>

\* every result of aggregate_quantities on the one pair (quantity, unit) is
\* one entry with that quantity and unit
Reaggregates(quantity, unit) ==
    \A again \in aggregate_quantities(<<[quantity |-> quantity, unit |-> unit]>>) :
        Len(again) = 1 /\ again[1].quantity = quantity /\ again[1].unit = unit

\* C16: when aggregate_quantities returns one entry (q, u, c), aggregating
\* the one-element list [(q, u)] returns one entry with the same q and u.
C16_IdempotentOnSingleEntry ==
    (AggregateReturned /\ Len(result.entries) = 1)
    => Reaggregates(result.entries[1].quantity, result.entries[1].unit)

\* the items of a category, and the normalized units that occur most often
\* among items
GroupOf(items, category) ==
    SelectSeq(items, LAMBDA it : get_unit_category(it.unit) = category)

Occurrences(items, unit) ==
    Cardinality({i \in 1..Len(items) : normalize_unit(items[i].unit) = unit})

MostFrequent(items) ==
    {normalize_unit(items[i].unit) : i \in 1..Len(items)}
    \cap {u \in {normalize_unit(items[i].unit) : i \in 1..Len(items)} :
             \A j \in 1..Len(items) :
                 Occurrences(items, normalize_unit(items[j].unit)) <= Occurrences(items, u)}

EntriesOf(entries, category) ==
    SelectSeq(entries, LAMBDA entry : get_unit_category(entry.unit) = category)

\* C17: the entry of a Volume or Weight group is in the normalized unit that
\* occurs most often in the group, and the choice is deterministic: every
\* result the same input can give has the same entry.
C17_DeterministicTarget ==
    AggregateReturned
    => \A category \in {"Volume", "Weight"} :
           \A i \in 1..Len(EntriesOf(result.entries, category)) :
               /\ EntriesOf(result.entries, category)[i].unit
                      \in MostFrequent(GroupOf(arg.items, category))
               /\ \A other \in aggregate_quantities(arg.items) :
                      EntriesOf(other, category) = EntriesOf(result.entries, category)

\* 0.0 + the quantities of the items whose normalized unit is unit, in order
RECURSIVE QuantitySum(_, _)
QuantitySum(items, unit) ==
    IF items = <<>> THEN Rat(0, 1)
    ELSE LET before == QuantitySum(SubSeq(items, 1, Len(items) - 1), unit)
         IN  IF normalize_unit(items[Len(items)].unit) = unit
             THEN f64(RatAdd(before, items[Len(items)].quantity))
             ELSE before

\* entries holds exactly one entry per distinct normalized unit of items,
\* with the sum of the unit's quantities and is_converted = false
OnePerUnit(items, entries) ==
    /\ \A i \in 1..Len(items) : \E j \in 1..Len(entries) :
           entries[j] = [quantity |-> QuantitySum(items, normalize_unit(items[i].unit)),
                         unit |-> normalize_unit(items[i].unit), is_converted |-> FALSE]
    /\ \A j \in 1..Len(entries) : \E i \in 1..Len(items) :
           entries[j].unit = normalize_unit(items[i].unit)
    /\ \A j, k \in 1..Len(entries) : entries[j].unit = entries[k].unit => j = k

\* C18: aggregate_quantities always returns, with exactly one entry for
\* Volume and one for Weight when the input has such a unit (none otherwise),
\* and one entry per distinct normalized unit of the Count and of the Other
\* inputs, which carries the sum of its group and is not marked converted.
C18_CategoriesKeptApart ==
    AggregateReturned
    => /\ \A category \in {"Volume", "Weight"} :
              Len(EntriesOf(result.entries, category))
                  = (IF GroupOf(arg.items, category) = <<>> THEN 0 ELSE 1)
       /\ \A category \in {"Count", "Other"} :
              OnePerUnit(GroupOf(arg.items, category), EntriesOf(result.entries, category))

C18_Witness ==
    /\ AggregateReturned
    /\ arg.items = <<[quantity |-> Rat(1, 1), unit |-> <<"c","u","p">>],
                     [quantity |-> Rat(2, 1), unit |-> <<"l","b">>]>>
    /\ Len(result.entries) = 2
    /\ \A i \in 1..2 : ~result.entries[i].is_converted
    /\ {result.entries[i].unit : i \in 1..2} = {<<"c","u","p">>, <<"l","b">>}

\* C19: the Volume or Weight entry is marked converted exactly when some pair
\* of its group has a normalized unit other than the target unit, and it is
\* not marked when all pairs of the group have the same normalized unit.
C19_ConvertedIffUnitsDiffer ==
    AggregateReturned
    => \A category \in {"Volume", "Weight"} :
           \A i \in 1..Len(EntriesOf(result.entries, category)) :
               LET entry == EntriesOf(result.entries, category)[i]
                   group == GroupOf(arg.items, category)
               IN  /\ \E target \in MostFrequent(group) :
                          /\ entry.unit = normalize_unit(target)
                          /\ entry.is_converted
                                 <=> \E k \in 1..Len(group) : normalize_unit(group[k].unit) # target
                   /\ (\A k \in 1..Len(group) :
                           normalize_unit(group[k].unit) = normalize_unit(group[1].unit))
                      => ~entry.is_converted

NormalizeReturned == pc = "done" /\ "unit" \in DOMAIN arg

\* the unit strings with a conversion factor
RecognizedUnits ==
    {<<"c","u","p">>, <<"c","u","p","s">>, <<"c">>, <<"t","a","b","l","e","s","p","o","o","n">>, <<"t","a","b","l","e","s","p","o","o","n","s">>, <<"t","b","s","p">>, <<"t","b","s">>,
     <<"t","e","a","s","p","o","o","n">>, <<"t","e","a","s","p","o","o","n","s">>, <<"t","s","p">>, <<"m","l">>, <<"m","i","l","l","i","l","i","t","e","r">>, <<"m","i","l","l","i","l","i","t","e","r","s">>,
     <<"l">>, <<"l","i","t","e","r">>, <<"l","i","t","e","r","s">>, <<"f","l"," ","o","z">>, <<"f","l","u","i","d"," ","o","u","n","c","e">>, <<"f","l","u","i","d"," ","o","u","n","c","e","s">>,
     <<"p","i","n","t">>, <<"p","i","n","t","s">>, <<"p","t">>, <<"q","u","a","r","t">>, <<"q","u","a","r","t","s">>, <<"q","t">>,
     <<"g","a","l","l","o","n">>, <<"g","a","l","l","o","n","s">>, <<"g","a","l">>,
     <<"g">>, <<"g","r","a","m">>, <<"g","r","a","m","s">>, <<"k","g">>, <<"k","i","l","o","g","r","a","m">>, <<"k","i","l","o","g","r","a","m","s">>,
     <<"o","z">>, <<"o","u","n","c","e">>, <<"o","u","n","c","e","s">>, <<"l","b">>, <<"l","b","s">>, <<"p","o","u","n","d">>, <<"p","o","u","n","d","s">>}

SameUnit(a, b) ==
    /\ get_conversion_factor(a).some
    /\ get_unit_category(a) = get_unit_category(b)
    /\ get_conversion_factor(a) = get_conversion_factor(b)

\* C20: two recognized unit strings of the same category and conversion
\* factor normalize to the same string, and an unrecognized unit normalizes
\* to its lower-cased input.
C20_OneCanonicalString ==
    NormalizeReturned
    => /\ \A other \in RecognizedUnits :
              SameUnit(arg.unit, other) => result.normalized = normalize_unit(other)
       /\ (get_unit_category(arg.unit) = "Other" => result.normalized = to_lowercase(arg.unit))

(***************************************************************************)
(* DurationParser and IngredientLineParser: behaviours                     *)
(***************************************************************************)
\* text is a run of date components: digits followed by D, W, M or Y
RECURSIVE IsDatePart(_)
IsDatePart(text) ==
    \/ text = <<>>
    \/ \E k \in 2..Len(text) :
           /\ IsDigits(Take(text, k - 1))
           /\ text[k] \in {"D", "W", "M", "Y"}
           /\ IsDatePart(Drop(text, k))

\* the position of the T separator, or one past the end
SeparatorAt(text) ==
    IF find_char(text, "T") = 0 THEN Len(text) + 1 ELSE find_char(text, "T")

\* C22: the date components before the T separator (days, weeks, months,
\* years) contribute nothing: the result is that of the time part alone.
C22_DateComponentsDropped ==
    (/\ DurationReturned
     /\ starts_with(arg.duration, <<"P">>)
     /\ SeparatorAt(arg.duration) > 2
     /\ IsDatePart(SubSeq(arg.duration, 2, SeparatorAt(arg.duration) - 1)))
    => result = parse_iso8601_duration(
                    <<"P", "T">> \o Drop(arg.duration, SeparatorAt(arg.duration)),
                    overflow_checks)

\* line starts with a number: a digit, or a sign or decimal point before a
\* digit
StartsWithNumber(line) ==
    /\ line # <<>>
    /\ \/ is_ascii_digit(line[1])
       \/ /\ line[1] \in {"-", "."}
          /\ Len(line) > 1
          /\ (is_ascii_digit(line[2])
              \/ (line[1] = "-" /\ line[2] = "." /\ Len(line) > 2 /\ is_ascii_digit(line[3])))

\* parsed has no quantity, and the unit and name of the whole line
WholeLineKept(line, parsed) ==
    /\ ~parsed.panic
    /\ parsed.quantity = Rat(0, 1)
    /\ parsed.unit = parse_unit(line).unit
    /\ parsed.name = trim(parse_unit(line).name)

\* C23: on a line that does not start with a number parse_ingredient returns
\* quantity 0.0 and takes unit and name from the whole trimmed line.
C23_NoQuantityKeepsLine ==
    (IngredientReturned /\ ~StartsWithNumber(trim(decode_html_entities(arg.input))))
    => WholeLineKept(trim(decode_html_entities(arg.input)), result)

\* the values n/d of a quantity text that line begins with and that a dash
\* and a digit follow: a run of digits or one of QuantityTexts
RangeStarts(line) ==
    {<<DecimalValue(Take(line, k), 0), 1>> :
        k \in {j \in 1..(Len(line) - 2) :
                 IsDigits(Take(line, j)) /\ line[j + 1] = "-" /\ is_ascii_digit(line[j + 2])}}
    \cup {<<q[2], q[3]>> :
            q \in {t \in QuantityTexts :
                     /\ starts_with(line, t[1] \o <<"-">>)
                     /\ Len(line) > Len(t[1]) + 1
                     /\ is_ascii_digit(line[Len(t[1]) + 2])}}

\* the values n/d of an integer, decimal or fraction that follows a leading
\* minus sign of line and ends the number
SignedStarts(line) ==
    {<<q[2], q[3]>> :
        q \in {t \in QuantityTexts \cup {<<<<"5">>, 5, 1>>} :
                 /\ ~contains(t[1], <<" ">>)
                 /\ starts_with(line, <<"-">> \o t[1] \o <<" ">>)
                 /\ Len(line) > Len(t[1]) + 2
                 /\ line[Len(t[1]) + 3] \in LowerLetters}}

\* C24: of a leading range a-b parse_ingredient keeps a; a leading minus sign
\* is no range separator, the number after it is read with its sign.
C24_RangeKeepsFirst ==
    IngredientReturned
    => /\ \A a \in RangeStarts(trim(decode_html_entities(arg.input))) :
              ~result.panic /\ result.quantity = Rat(a[1], a[2])
       /\ \A a \in SignedStarts(trim(decode_html_entities(arg.input))) :
              ~result.panic /\ result.quantity = Rat(0 - a[1], a[2])

C24_Witness ==
    /\ IngredientReturned
    /\ arg.input = <<"3","-","4"," ","c","l","o","v","e","s"," ","g","a","r","l","i","c">>
    /\ RangeStarts(arg.input) = {<<3, 1>>}
    /\ result = [panic |-> FALSE, quantity |-> Rat(3, 1), unit |-> <<"c","l","o","v","e","s">>, name |-> <<"g","a","r","l","i","c">>]

C24_WitnessMinus ==
    /\ IngredientReturned
    /\ arg.input = <<"-","5"," ","e","g","g","s">>
    /\ SignedStarts(arg.input) = {<<5, 1>>}
    /\ result.quantity = Rat(0 - 5, 1)

\* text stands in line at position p and the end of the line, whitespace or
\* a comma follows it
StandsAt(line, text, p) ==
    /\ p + Len(text) - 1 <= Len(line)
    /\ SubSeq(line, p, p + Len(text) - 1) = text
    /\ \/ p + Len(text) > Len(line)
       \/ is_whitespace(line[p + Len(text)])
       \/ line[p + Len(text)] = ","

\* C25: the unit parse_ingredient returns is empty or is a vocabulary term as
\* the line writes it, in any letter case, with the end of the line,
\* whitespace or a comma right after it.
C25_UnitIsWholeTerm ==
    (IngredientReturned /\ ~result.panic /\ result.unit # <<>>)
    => /\ \E i \in 1..Len(Units) : WritesUnit(result.unit, Units[i])
       /\ \E p \in 1..Len(trim(decode_html_entities(arg.input))) :
              StandsAt(trim(decode_html_entities(arg.input)), result.unit, p)

\* line holds a parenthesized aside right after its quantity, or at its
\* start: the text before the first "(" is blank, a run of digits or one of
\* QuantityTexts, and a ")" follows the "("
HasAside(line) ==
    /\ find_char(line, "(") > 0
    /\ find_char(Drop(line, find_char(line, "(")), ")") > 0
    /\ find_char(line, ")") > find_char(line, "(")
    /\ \/ trim(Take(line, find_char(line, "(") - 1)) = <<>>
       \/ IsDigits(trim(Take(line, find_char(line, "(") - 1)))
       \/ \E q \in QuantityTexts : trim(Take(line, find_char(line, "(") - 1)) = q[1]

\* the text of line after its first ")"
AfterAside(line) == Drop(line, find_char(line, ")"))

\* the value n/d of the quantity text before the first "(" of line
AsideQuantity(line) ==
    LET text == trim(Take(line, find_char(line, "(") - 1))
    IN  IF text = <<>> THEN Rat(0, 1)
        ELSE IF IsDigits(text) THEN Rat(DecimalValue(text, 0), 1)
        ELSE LET q == CHOOSE t \in QuantityTexts : t[1] = text IN Rat(q[2], q[3])

\* C26: parse_ingredient skips a parenthesized aside that stands where the
\* unit is looked for, up to and including its first ")", and matches the
\* unit on the text after it; a unit it returns stands after the aside.
C26_AsideSkipped ==
    (IngredientReturned /\ HasAside(trim(decode_html_entities(arg.input))))
    => /\ ~result.panic
       /\ result.quantity = AsideQuantity(trim(decode_html_entities(arg.input)))
       /\ result.unit = parse_unit(AfterAside(trim(decode_html_entities(arg.input)))).unit
       /\ result.name = trim(parse_unit(AfterAside(trim(decode_html_entities(arg.input)))).name)
       /\ \/ result.unit = <<>>
          \/ \E p \in (find_char(trim(decode_html_entities(arg.input)), ")") + 1)
                          ..Len(trim(decode_html_entities(arg.input))) :
                 StandsAt(trim(decode_html_entities(arg.input)), result.unit, p)

C26_Witness ==
    /\ IngredientReturned
    /\ arg.input = <<"1"," ","(","1","5"," ","o","z",")"," ","c","a","n"," ","b","e","a","n","s">>
    /\ HasAside(arg.input)
    /\ AfterAside(arg.input) = <<" ","c","a","n"," ","b","e","a","n","s">>
    /\ result = [panic |-> FALSE, quantity |-> Rat(1, 1), unit |-> <<"c","a","n">>, name |-> <<"b","e","a","n","s">>]

\* exact arithmetic on the values of quantities
Times(a, b) == IF a.n = 0 \/ b.n = 0 THEN Rat(0, 1) ELSE RatDiv(a, Rat(b.d, b.n))
Magnitude(a) == Rat(Abs(a.n), a.d)
Distance(a, b) == Magnitude(RatAdd(a, Rat(0 - b.n, b.d)))
AtMost(a, b) == a.n * b.d <= b.n * a.d

\* the amount of one pair or entry: its quantity times the conversion factor
\* of its unit in a Volume or Weight group, its quantity in the others
Amount(pair) ==
    IF get_conversion_factor(pair.unit).some
    THEN Times(pair.quantity, get_conversion_factor(pair.unit).v)
    ELSE pair.quantity

\* the exact sum of the amounts of pairs, and of their magnitudes
RECURSIVE TotalAmount(_)
TotalAmount(pairs) ==
    IF pairs = <<>> THEN Rat(0, 1) ELSE RatAdd(Amount(Head(pairs)), TotalAmount(Tail(pairs)))

RECURSIVE TotalMagnitude(_)
TotalMagnitude(pairs) ==
    IF pairs = <<>> THEN Rat(0, 1)
    ELSE RatAdd(Magnitude(Amount(Head(pairs))), TotalMagnitude(Tail(pairs)))

\* the rounding allowance of a group of pairs: 2 * (Len(pairs) + 1) units
\* in the last place of the sum of the magnitudes
Allowance(pairs) ==
    Times(Rat(2 * (Len(pairs) + 1), 2 ^ F64Bits), TotalMagnitude(pairs))

\* C30 as stated: in every category the amounts of the output entries sum
\* exactly to the amounts of the input pairs (quantity times factor(unit)
\* for Volume and Weight, quantity for Count and Other).
C30_QuantityConserved ==
    AggregateReturned
    => \A category \in {"Volume", "Weight", "Count", "Other"} :
           TotalAmount(EntriesOf(result.entries, category))
               = TotalAmount(GroupOf(arg.items, category))

\* C30 amended: in every category the amounts of the output entries sum to
\* the amounts of the input pairs up to the rounding of the floating-point
\* operations, so that no pair is dropped or counted twice.
C30_ConservedUpToRounding ==
    AggregateReturned
    => \A category \in {"Volume", "Weight", "Count", "Other"} :
           AtMost(Distance(TotalAmount(EntriesOf(result.entries, category)),
                           TotalAmount(GroupOf(arg.items, category))),
                  Allowance(GroupOf(arg.items, category)))

C30_Witness ==
    /\ AggregateReturned
    /\ Len(arg.items) = 3
    /\ \A i \in 1..3 : get_unit_category(arg.items[i].unit) = "Volume"
    /\ Cardinality({normalize_unit(arg.items[i].unit) : i \in 1..3}) = 3
    /\ Len(result.entries) = 1
    /\ result.entries[1].is_converted
    /\ TotalAmount(result.entries) # TotalAmount(arg.items)
    /\ AtMost(Distance(TotalAmount(result.entries), TotalAmount(arg.items)),
              Allowance(arg.items))
(***************************************************************************)
(* import_recipe_from_url (commands/recipes.rs): concurrent calls over the *)
(* shared database.  Each call checks for a stored recipe with its URL,    *)
(* fetches the page, parses it and creates the recipe; the calls run on a  *)
(* multi-threaded runtime, so the steps of different calls interleave.     *)
(* The database is taken to answer every query.                            *)
(***************************************************************************)
MaxCalls == 2

\* INSERT INTO recipes (db/recipes.rs): the table afterwards and whether the
\* statement succeeded.  The schema is not part of the sources read here;
\* db.unique_source_url tells whether it declares source_url UNIQUE.
insert_recipe(table, row) ==
    IF table.unique_source_url
       /\ \E stored \in table.recipes : stored.source_url = row.source_url
    THEN [ok |-> FALSE, table |-> table]
    ELSE [ok |-> TRUE, table |-> [table EXCEPT !.recipes = @ \cup {row}]]

\* the call ends with value
ImportReturns(c, value) ==
    calls' = [calls EXCEPT ![c] = [@ EXCEPT !.pc = "done", !.result = value]]

\* lines 112-128: the URL is trimmed and checked, then
\* recipe_exists_by_source_url counts the stored recipes with that source_url
ImportCheckDuplicate(c) ==
    /\ calls[c].pc = "recipe_exists_by_source_url"
    /\ LET trimmed == trim(calls[c].url)
       IN  IF trimmed = <<>>
           THEN ImportReturns(c, Err("Please enter a valid website URL"))
           ELSE IF Cardinality({r \in db.recipes : r.source_url = trimmed}) > 0
                THEN ImportReturns(c, Err("A recipe from this URL has already been imported"))
           ELSE calls' = [calls EXCEPT ![c] = [@ EXCEPT !.pc = "fetch_url", !.url = trimmed]]
    /\ UNCHANGED <<pc, fetch_vars, parse_vars, arg, db, result>>

\* lines 131-149: fetch_url and the message of its error.  What the server
\* answers is the environment's choice
ImportFetchUrl(c) ==
    /\ calls[c].pc = "fetch_url"
    /\ LET message(kind) ==
               CASE kind \in {"InvalidUrl", "InvalidUrlScheme"} ->
                        "Please enter a valid website URL"
                 [] kind \in {"ConnectionFailed", "TooManyRedirects"} ->
                        "Could not connect to the website"
                 [] kind = "Timeout" -> "The website took too long to respond"
                 [] kind = "HttpError" -> "The website returned an error (HTTP 404)"
                 [] kind = "InvalidContentType" ->
                        "This URL does not appear to be a recipe page"
                 [] kind = "ResponseTooLarge" -> "The page is too large to process"
                 [] kind = "ReadError" -> "Could not read the website response"
           script(text) == <<Element("script", Some(<<"a","p","p","l","i","c","a","t","i","o","n","/","l","d","+","j","s","o","n">>), text)>>
           pages == {script(<<"{","\"","@","t","y","p","e","\"",":","\"","R","e","c","i","p","e","\"",",","\"","n","a","m","e","\"",":","\"","A","\"",",","\"","r","e","c","i","p","e","I","n","g","r","e","d","i","e","n","t","\"",":","[","\"","1"," ","c","u","p"," ","f","l","o","u","r","\"","]",",","\"","r","e","c","i","p","e","I","n","s","t","r","u","c","t","i","o","n","s","\"",":","[","\"","M","i","x","\"","]","}">>),
                     script(<<"{","\"","@","t","y","p","e","\"",":","\"","R","e","c","i","p","e","\"",",","\"","n","a","m","e","\"",":","\"","A","\"","}">>),
                     script(<<"{","\"","@","t","y","p","e","\"",":","\"","A","r","t","i","c","l","e","\"",",","\"","n","a","m","e","\"",":","\"","N","\"","}">>),
                     <<>>}
       IN  IF validate_url(calls[c].url).tag = "Err"
           THEN ImportReturns(c, Err(message(validate_url(calls[c].url).kind)))
           ELSE \/ \E kind \in {"ConnectionFailed", "Timeout", "TooManyRedirects", "HttpError",
                                "InvalidContentType", "ResponseTooLarge", "ReadError"} :
                       ImportReturns(c, Err(message(kind)))
                \/ \E page \in pages :
                       calls' = [calls EXCEPT ![c] = [@ EXCEPT !.pc = "parse_recipe_from_html",
                                                               !.html = page]]
    /\ UNCHANGED <<pc, fetch_vars, parse_vars, arg, db, result>>

\* lines 152-165: parse_recipe_from_html and the message of its error
ImportParse(c) ==
    /\ calls[c].pc = "parse_recipe_from_html"
    /\ \E found \in {extract_jsonld_blocks(calls[c].html)} :
       \E object \in {IF found.tag = "Ok" THEN find_recipe_object(found.v) ELSE found} :
       \E parsed \in {IF object.tag = "Ok" THEN parse_recipe_json(object.v, overflow_checks)
                      ELSE object} :
           IF parsed.tag = "Ok"
           THEN calls' = [calls EXCEPT ![c] = [@ EXCEPT !.pc = "create_recipe",
                                                        !.name = parsed.v.name]]
           ELSE IF parsed.tag = "Panic" THEN ImportReturns(c, parsed)
           ELSE IF parsed.kind \in {"NoJsonLdFound", "NoRecipeFound"}
                THEN ImportReturns(c, Err("Could not find recipe data on this page"))
           ELSE IF parsed.kind = "MultipleRecipesFound"
                THEN ImportReturns(c, Err("This page contains multiple recipes. Please try a more specific URL"))
           ELSE ImportReturns(c, Err("The recipe data on this page could not be read"))
    /\ UNCHANGED <<pc, fetch_vars, parse_vars, arg, db, result>>

\* lines 168-171 and create_recipe: the recipe is inserted under a fresh id
\* with the call's URL as source_url
ImportCreate(c) ==
    /\ calls[c].pc = "create_recipe"
    /\ LET inserted == insert_recipe(db, [id |-> c, name |-> calls[c].name,
                                          source_url |-> calls[c].url])
       IN  /\ db' = inserted.table
           /\ IF inserted.ok THEN ImportReturns(c, Ok(c))
              ELSE ImportReturns(c, Err("Database error"))
    /\ UNCHANGED <<pc, fetch_vars, parse_vars, arg, result>>

InitImport ==
    /\ calls \in [1..MaxCalls ->
                     {[pc |-> "recipe_exists_by_source_url", url |-> u, html |-> <<>>,
                       name |-> <<>>, result |-> NoResult] :
                          u \in {<<"h","t","t","p","s",":","/","/","a",".","b","/","r">>, <<" ","h","t","t","p","s",":","/","/","a",".","b","/","r"," ">>, <<"h","t","t","p","s",":","/","/","a",".","b","/","s">>,
                                 <<"f","t","p",":","/","/","a",".","b","/","r">>, <<" "," ">>}}]
    /\ db \in {[unique_source_url |-> unique, recipes |-> stored] :
                  unique \in BOOLEAN,
                  stored \in {{}, {[id |-> 0, name |-> <<"S">>, source_url |-> <<"h","t","t","p","s",":","/","/","a",".","b","/","s">>]}}}
    /\ overflow_checks \in BOOLEAN
    /\ pc = "import_recipe_from_url"
    /\ html = <<>> /\ blocks = <<>> /\ json = JNull
    /\ result = NoResult
    /\ arg = <<>>
    /\ url = <<>> /\ response = NoResponse /\ body = NoBody
    /\ net = [client_built |-> FALSE, requests_sent |-> 0, body_read |-> FALSE]

NextImport ==
    \E c \in 1..MaxCalls :
        ImportCheckDuplicate(c) \/ ImportFetchUrl(c) \/ ImportParse(c) \/ ImportCreate(c)

SpecImport == InitImport /\ [][NextImport]_vars
(***************************************************************************)
(* import_recipe_from_url: stored recipes per source URL                   *)
(***************************************************************************)
\* a stored recipe has source
StoredUrl(source) == \E r \in db.recipes : r.source_url = source

\* no two stored recipes have the same source_url
OnePerSourceUrl ==
    \A r1 \in db.recipes : \A r2 \in db.recipes :
        r1.source_url = r2.source_url => r1 = r2

\* a call that checks for a duplicate or creates its recipe while a stored
\* recipe has its URL returns the duplicate-URL message and stores nothing
DuplicateRefused ==
    \A c \in DOMAIN calls :
        (/\ calls[c].pc \in {"recipe_exists_by_source_url", "create_recipe"}
         /\ calls'[c] # calls[c]
         /\ StoredUrl(trim(calls[c].url)))
        => /\ calls'[c].result = Err("A recipe from this URL has already been imported")
           /\ db' = db

\* C29: under every interleaving of concurrent imports at most one stored
\* recipe has a given source_url, and an import whose URL belongs to a
\* stored recipe returns the duplicate-URL message and creates no recipe.
C29_OneRecipePerUrl == [](OnePerSourceUrl) /\ [][DuplicateRefused]_vars

=============================================================================
